---- MODULE Spec2Model ----
(***************************************************************************)
(* Incremental image regeneration of dreisdesign/portfolio-build.          *)
(*                                                                         *)
(* Spec     the timestamp engine                                           *)
(*          build-system/deploy/deploy-support/scripts/01-process-images   *)
(*                                                                         *)
(* File names are sequences of one-character strings, so that startsWith,  *)
(* includes, extname, basename, toLowerCase and the regular expressions    *)
(* of the scripts are computed on the characters as the code computes      *)
(* them.  A path is a record [dir, name].                                  *)
(***************************************************************************)
EXTENDS FiniteSets, Integers, Sequences, TLC

(***************************************************************************)
(* Bounds of the model.                                                    *)
(***************************************************************************)
MaxTree == 2      \* files in the source tree
MaxTime == 3      \* last clock value
MaxRuns == 2      \* runs of the script in one behaviour
MaxEvents == 1    \* touches, deletions and I/O faults in one behaviour
MaxBackup == 3    \* files in the backed-up assets tree of a swift build

(***************************************************************************)
(* Characters and string helpers (JavaScript String / node path).          *)
(***************************************************************************)
Digits == {"0", "1", "2", "3", "4", "5", "6", "7", "8", "9"}

DigitChar == <<"0", "1", "2", "3", "4", "5", "6", "7", "8", "9">>

\* Template-literal conversion of a non-negative integer: `${size}`.
RECURSIVE NumberToString(_)
NumberToString(n) ==
    IF n < 10 THEN <<DigitChar[n + 1]>>
    ELSE NumberToString(n \div 10) \o <<DigitChar[(n % 10) + 1]>>

UpperToLower ==
    [A |-> "a", B |-> "b", C |-> "c", D |-> "d", E |-> "e", F |-> "f",
     G |-> "g", H |-> "h", I |-> "i", J |-> "j", K |-> "k", L |-> "l",
     M |-> "m", N |-> "n", O |-> "o", P |-> "p", Q |-> "q", R |-> "r",
     S |-> "s", T |-> "t", U |-> "u", V |-> "v", W |-> "w", X |-> "x",
     Y |-> "y", Z |-> "z"]

\* String.prototype.toLowerCase
toLowerCase(s) ==
    [i \in 1..Len(s) |->
        IF s[i] \in DOMAIN UpperToLower THEN UpperToLower[s[i]] ELSE s[i]]

\* String.prototype.startsWith
startsWith(s, p) == Len(s) >= Len(p) /\ SubSeq(s, 1, Len(p)) = p

\* String.prototype.endsWith
endsWith(s, p) ==
    Len(s) >= Len(p) /\ SubSeq(s, Len(s) - Len(p) + 1, Len(s)) = p

\* String.prototype.includes
includes(s, p) ==
    \E i \in 1..(Len(s) - Len(p) + 1) : SubSeq(s, i, i + Len(p) - 1) = p

\* String.prototype.slice(1)
slice1(s) == IF Len(s) = 0 THEN s ELSE Tail(s)

\* Index of the last "." of a name, 0 when there is none.
LastDot(s) ==
    LET dots == {i \in 1..Len(s) : s[i] = "."}
    IN  IF dots = {} THEN 0 ELSE CHOOSE i \in dots : \A j \in dots : j <= i

\* path.extname: from the last "." to the end; empty when there is no "."
\* or when the only "." is the first character.
extname(s) ==
    IF LastDot(s) <= 1 THEN <<>> ELSE SubSeq(s, LastDot(s), Len(s))

\* path.basename(p, ext): the name without the suffix ext.
basename(s, ext) ==
    IF Len(ext) > 0 /\ Len(s) > Len(ext) /\ endsWith(s, ext)
    THEN SubSeq(s, 1, Len(s) - Len(ext))
    ELSE s

(***************************************************************************)
(* String literals of the scripts.                                         *)
(***************************************************************************)
Str_favicon == <<"f", "a", "v", "i", "c", "o", "n">>
Str_apple_touch_icon == <<"a", "p", "p", "l", "e", "-", "t", "o", "u", "c", "h", "-", "i", "c", "o", "n">>
Str_android_chrome == <<"a", "n", "d", "r", "o", "i", "d", "-", "c", "h", "r", "o", "m", "e">>
Str_mstile == <<"m", "s", "t", "i", "l", "e">>
Str_safari_pinned_tab == <<"s", "a", "f", "a", "r", "i", "-", "p", "i", "n", "n", "e", "d", "-", "t", "a", "b">>
Str_browserconfig_xml == <<"b", "r", "o", "w", "s", "e", "r", "c", "o", "n", "f", "i", "g", ".", "x", "m", "l">>
Str_site_webmanifest == <<"s", "i", "t", "e", ".", "w", "e", "b", "m", "a", "n", "i", "f", "e", "s", "t">>
Str_original == <<"-", "o", "r", "i", "g", "i", "n", "a", "l">>
Ext_svg == <<".", "s", "v", "g">>
Ext_gif == <<".", "g", "i", "f">>
Ext_png == <<".", "p", "n", "g">>
Ext_jpg == <<".", "j", "p", "g">>
Ext_jpeg == <<".", "j", "p", "e", "g">>
Ext_webp == <<".", "w", "e", "b", "p">>
Fmt_webp == <<"w", "e", "b", "p">>
Fmt_png == <<"p", "n", "g">>
Fmt_jpeg == <<"j", "p", "e", "g">>
Fmt_gif == <<"g", "i", "f">>
Fmt_tiff == <<"t", "i", "f", "f">>
Fmt_avif == <<"a", "v", "i", "f">>

(***************************************************************************)
(* The file system.  A path is [root, dir, name]: root is the source root  *)
(* "public_html" or the build root "build/temp/public_html", dir the       *)
(* directory below it.  fs maps every existing file to its modification    *)
(* time and to the pixel width of the image it holds.                      *)
(***************************************************************************)
SourceRoot == "public_html"

ImagesDir == "assets/images"

SubDir == "assets/images/sub"

\* File names that the source tree is drawn from.
N_a_png == <<"a", ".", "p", "n", "g">>
N_a_jpeg == <<"a", ".", "j", "p", "e", "g">>
N_b_webp == <<"b", ".", "w", "e", "b", "p">>
N_c_jpg == <<"c", ".", "j", "p", "g">>
N_favicon_png == <<"f", "a", "v", "i", "c", "o", "n", ".", "p", "n", "g">>
N_logo_svg == <<"l", "o", "g", "o", ".", "S", "V", "G">>
N_d_2w_png == <<"d", "-", "2", "w", ".", "p", "n", "g">>
N_x_safari_png ==
    <<"x", "-">> \o Str_safari_pinned_tab \o <<".", "p", "n", "g">>

SourceFile(dir, name) == [root |-> SourceRoot, dir |-> dir, name |-> name]

Universe ==
    {SourceFile(ImagesDir, N_a_png), SourceFile(ImagesDir, N_a_jpeg),
     SourceFile(SubDir, N_a_png), SourceFile(ImagesDir, N_b_webp),
     SourceFile(ImagesDir, N_c_jpg), SourceFile(ImagesDir, N_favicon_png),
     SourceFile(ImagesDir, N_logo_svg), SourceFile(ImagesDir, N_d_2w_png),
     SourceFile(ImagesDir, N_x_safari_png)}

\* Pixel widths a source image is drawn from.
SourceWidths == {800, 2000}

VARIABLES
    fs,              \* [path -> [mtime, width]], the files that exist
    rootExists,      \* the source image root exists
    now,             \* the clock
    phase,           \* "idle", "scanning", "done"
    target,          \* "dir" or the single source file given to main
    todo,            \* directory entries not visited yet
    processedCount,  \* 01-process-images.mjs:30
    skippedCount,    \* 01-process-images.mjs:31
    exitCode,        \* exit code of the last run, -1 while none has ended
    log,             \* what the current run did, per source
    pending,         \* changes the environment made since the last run
    before,          \* what held when the current run started
    last,            \* what held when the last run ended
    runs,            \* runs started
    events,          \* touches, deletions and I/O faults so far
    args,            \* part_001: the arguments of the current run
    vcsOk,           \* part_001: the git commands of getChangedImages succeed
    vcsChanged,      \* part_001: the files the git diff queries report
    gitCount,        \* part_001:201-202, the counters processed and failed
    gitLog,          \* what the current run of part_001 did
    legacyRun,       \* scripts/01-process-images.mjs: processedCache and run
    swiftRun,        \* swift-build.mjs: the position and history of a build
    buildRun,        \* build.mjs: the position and history of a build
    deployRun        \* simple-deploy.sh: the position and history of a deploy

vars == <<fs, rootExists, now, phase, target, todo, processedCount,
          skippedCount, exitCode, log, pending, before, last, runs, events,
          args, vcsOk, vcsChanged, gitCount, gitLog,
          legacyRun, swiftRun, buildRun, deployRun>>

\* The state of the git-based script, which the timestamp script leaves alone.
gitVars == <<args, vcsOk, vcsChanged, gitCount, gitLog>>

\* The state of the other programs, which the image scripts leave alone.
extVars == <<legacyRun, swiftRun, buildRun, deployRun>>

\* The value of the state of a program that is not running.
NotRunning == <<>>

\* The source files of the tree.
tree == {p \in DOMAIN fs : p.root = SourceRoot}

(***************************************************************************)
(* deploy-support/scripts/01-process-images.mjs: pure helpers.             *)
(***************************************************************************)
SIZES == <<320, 640, 960, 1200, 1800>>

\* Mutant: the extension test of lines 53-56 is left out.
shouldSkipFile_NoExtensionTest(filePath) ==
    LET filename == filePath.name
    IN  \/ startsWith(filename, Str_favicon)
        \/ startsWith(filename, Str_apple_touch_icon)
        \/ startsWith(filename, Str_android_chrome)
        \/ startsWith(filename, Str_mstile)
        \/ includes(filename, Str_safari_pinned_tab)
        \/ filename = Str_browserconfig_xml
        \/ filename = Str_site_webmanifest

\* shouldSkipFile(filePath), lines 36-59.
shouldSkipFile(filePath) ==
    LET filename == filePath.name
        ext == toLowerCase(extname(filename))
    IN  \/ startsWith(filename, Str_favicon)
        \/ startsWith(filename, Str_apple_touch_icon)
        \/ startsWith(filename, Str_android_chrome)
        \/ startsWith(filename, Str_mstile)
        \/ includes(filename, Str_safari_pinned_tab)
        \/ filename = Str_browserconfig_xml
        \/ filename = Str_site_webmanifest
        \/ ext = Ext_svg
        \/ ext = Ext_gif

\* getFileTime(filePath), lines 64-71: 0 stands for "does not exist".
getFileTime(filePath, d) ==
    IF filePath \in DOMAIN d THEN d[filePath].mtime ELSE 0

\* fileExists(filePath), lines 76-83.
fileExists(filePath, d) == filePath \in DOMAIN d

\* path.join(buildRoot, 'temp/public_html', path.dirname(relativePath))
BuildDirOf(sourceImagePath, buildRoot) ==
    [root |-> buildRoot \o "/temp/" \o SourceRoot, dir |-> sourceImagePath.dir]

InBuildDir(buildDir, name) ==
    [root |-> buildDir.root, dir |-> buildDir.dir, name |-> name]

\* `${baseName}-${size}w.webp` and its siblings
VariantName(baseName, size, dotExt) ==
    baseName \o <<"-">> \o NumberToString(size) \o <<"w">> \o dotExt

RECURSIVE ResponsiveOutputs(_, _, _, _)
ResponsiveOutputs(buildDir, baseName, ext, i) ==
    IF i > Len(SIZES) THEN <<>>
    ELSE <<InBuildDir(buildDir, VariantName(baseName, SIZES[i], Ext_webp)),
           InBuildDir(buildDir, VariantName(baseName, SIZES[i], ext))>>
         \o ResponsiveOutputs(buildDir, baseName, ext, i + 1)

\* Mutant: the sharpened original is not among the expected outputs.
getBuildOutputPaths_NoOriginal(sourceImagePath, buildRoot) ==
    LET buildDir == BuildDirOf(sourceImagePath, buildRoot)
        ext == extname(sourceImagePath.name)
        baseName == basename(sourceImagePath.name, ext)
    IN  ResponsiveOutputs(buildDir, baseName, ext, 1)

\* getBuildOutputPaths(sourceImagePath, buildRoot), lines 88-107.
getBuildOutputPaths(sourceImagePath, buildRoot) ==
    LET buildDir == BuildDirOf(sourceImagePath, buildRoot)
        ext == extname(sourceImagePath.name)
        baseName == basename(sourceImagePath.name, ext)
    IN  <<InBuildDir(buildDir, baseName \o Str_original \o ext)>>
        \o ResponsiveOutputs(buildDir, baseName, ext, 1)

\* Mutant: a missing output is passed over instead of ending the loop.
RECURSIVE OutputsLoop_NoReturn(_, _, _, _)
OutputsLoop_NoReturn(outputPaths, i, oldest, d) ==
    IF i > Len(outputPaths) THEN [missing |-> FALSE, oldest |-> oldest]
    ELSE LET outputTime == getFileTime(outputPaths[i], d)
         IN  IF outputTime # 0 /\ (oldest = <<>> \/ outputTime < oldest[1])
             THEN OutputsLoop_NoReturn(outputPaths, i + 1, <<outputTime>>, d)
             ELSE OutputsLoop_NoReturn(outputPaths, i + 1, oldest, d)

\* The loop of needsProcessing, lines 116-126.  oldest is <<>> for Infinity.
RECURSIVE OutputsLoop(_, _, _, _)
OutputsLoop(outputPaths, i, oldest, d) ==
    IF i > Len(outputPaths) THEN [missing |-> FALSE, oldest |-> oldest]
    ELSE LET outputTime == getFileTime(outputPaths[i], d)
         IN  IF outputTime = 0
             THEN [missing |-> TRUE, oldest |-> oldest]
             ELSE IF oldest = <<>> \/ outputTime < oldest[1]
                  THEN OutputsLoop(outputPaths, i + 1, <<outputTime>>, d)
                  ELSE OutputsLoop(outputPaths, i + 1, oldest, d)

\* Mutant: >= in place of >.
SourceIsNewer_OrEqual(compareTime, oldest) ==
    oldest # <<>> /\ compareTime >= oldest[1]

\* compareTime > oldestOutputTime, line 131
SourceIsNewer(compareTime, oldest) ==
    oldest # <<>> /\ compareTime > oldest[1]

\* Mutant: only the existence of the outputs is checked, not their age.
needsProcessing_ExistenceOnly(sourceImagePath, buildRoot, d) ==
    OutputsLoop(getBuildOutputPaths(sourceImagePath, buildRoot), 1, <<>>, d).missing

\* Mutant: only the sharpened original is looked at.
needsProcessing_OriginalOnly(sourceImagePath, buildRoot, d) ==
    LET scan == OutputsLoop(<<getBuildOutputPaths(sourceImagePath, buildRoot)[1]>>,
                            1, <<>>, d)
    IN  IF scan.missing THEN TRUE
        ELSE SourceIsNewer(getFileTime(sourceImagePath, d), scan.oldest)

\* needsProcessing(sourceImagePath, buildRoot), lines 112-136.
needsProcessing(sourceImagePath, buildRoot, d) ==
    LET scan == OutputsLoop(getBuildOutputPaths(sourceImagePath, buildRoot),
                            1, <<>>, d)
    IN  IF scan.missing THEN TRUE
        ELSE SourceIsNewer(getFileTime(sourceImagePath, d), scan.oldest)

(***************************************************************************)
(* The image library as the scripts call it.                               *)
(***************************************************************************)
\* The output methods of a sharp instance that `[format]({ quality })`
\* (lines 151, 180) can name; any other property is undefined and the call
\* throws a TypeError inside the try block.
SharpFormatMethods ==
    {Fmt_jpeg, Fmt_png, Fmt_webp, Fmt_gif, Fmt_tiff, Fmt_avif}

\* .resize(width, null, { withoutEnlargement }): the width of the result.
\* .resize(width) alone leaves withoutEnlargement at its default, false.
ResizedWidth(sourceWidth, width, withoutEnlargement) ==
    IF withoutEnlargement /\ sourceWidth < width THEN sourceWidth ELSE width

(***************************************************************************)
(* deploy-support/scripts/01-process-images.mjs: the generator.            *)
(* A write is [path, width, ok]: ok is FALSE when the call threw and the   *)
(* function returned null.                                                 *)
(***************************************************************************)
BuildRootDefault == "build"

\* path.join(buildRoot, 'temp/public_html', relativePath), line 201
BuildImagePath(sourceImagePath, buildRoot) ==
    InBuildDir(BuildDirOf(sourceImagePath, buildRoot), sourceImagePath.name)

\* Mutant: the output name lacks the "w" after the width.
processImageVariant_NoW(inputPath, inputWidth, width, format, ioFault) ==
    LET outputBase == basename(inputPath.name, extname(inputPath.name))
        outputPath ==
            InBuildDir(inputPath,
                       outputBase \o <<"-">> \o NumberToString(width)
                           \o <<".">> \o format)
    IN  [path |-> outputPath,
         width |-> ResizedWidth(inputWidth, width, FALSE),
         ok |-> format \in SharpFormatMethods /\ ~ioFault]

\* processImageVariant(inputPath, width, format), lines 141-164.
processImageVariant(inputPath, inputWidth, width, format, ioFault) ==
    LET outputBase == basename(inputPath.name, extname(inputPath.name))
        outputPath ==
            InBuildDir(inputPath, VariantName(outputBase, width, <<".">> \o format))
    IN  [path |-> outputPath,
         width |-> ResizedWidth(inputWidth, width, FALSE),
         ok |-> format \in SharpFormatMethods /\ ~ioFault]

\* Mutant: the sharpened original takes the name of the copy.
processOriginalImage_NoSuffix(sourceImagePath, sourceWidth, buildImagePath, ioFault) ==
    [path |-> buildImagePath,
     width |-> sourceWidth,
     ok |-> slice1(extname(buildImagePath.name)) \in SharpFormatMethods
                /\ ~ioFault]

\* processOriginalImage(sourceImagePath, buildImagePath), lines 169-193.
processOriginalImage(sourceImagePath, sourceWidth, buildImagePath, ioFault) ==
    LET ext == extname(buildImagePath.name)
        baseName == basename(buildImagePath.name, ext)
        outputPath == InBuildDir(buildImagePath, baseName \o Str_original \o ext)
        format == slice1(ext)
    IN  [path |-> outputPath,
         width |-> sourceWidth,
         ok |-> format \in SharpFormatMethods /\ ~ioFault]

\* The loop of processImageSet, lines 215-218; k counts the writes so far.
RECURSIVE VariantWrites(_, _, _, _, _)
VariantWrites(buildImagePath, inputWidth, format, i, failAt) ==
    IF i > Len(SIZES) THEN <<>>
    ELSE <<processImageVariant(buildImagePath, inputWidth, SIZES[i], Fmt_webp,
                               failAt = 2 * i),
           processImageVariant(buildImagePath, inputWidth, SIZES[i], format,
                               failAt = 2 * i + 1)>>
         \o VariantWrites(buildImagePath, inputWidth, format, i + 1, failAt)

\* The files d holds after the writes, applied in order and stamped with
\* time t; a write that failed leaves no file.
RECURSIVE ApplyWrites(_, _, _, _)
ApplyWrites(d, writes, i, t) ==
    IF i > Len(writes) THEN d
    ELSE IF writes[i].ok
         THEN ApplyWrites(
                  (writes[i].path :> [mtime |-> t, width |-> writes[i].width]) @@ d,
                  writes, i + 1, t)
         ELSE ApplyWrites(d, writes, i + 1, t)

\* An environment fault: none, the copy of the source fails, or the n-th
\* of the writes (1 = sharpened original, 2.. = variants) fails.
NoFault == [kind |-> "none", n |-> 0]

FaultChoices ==
    {NoFault, [kind |-> "copy", n |-> 0]}
    \cup {[kind |-> "write", n |-> k] : k \in 1..(1 + 2 * Len(SIZES))}

\* Mutant: the first write that fails ends the writes of the source.
processImageSet_StopsAtFailure(sourceImagePath, buildRoot, d, t, fault) ==
    LET buildImagePath == BuildImagePath(sourceImagePath, buildRoot)
        sourceWidth == d[sourceImagePath].width
        copy == [path |-> buildImagePath, width |-> sourceWidth, ok |-> TRUE]
        failAt == IF fault.kind = "write" THEN fault.n ELSE 0
        ext == extname(sourceImagePath.name)
        all ==
            <<copy,
              processOriginalImage(sourceImagePath, sourceWidth, buildImagePath,
                                   failAt = 1)>>
            \o VariantWrites(buildImagePath, sourceWidth, slice1(ext), 1, failAt)
        writes ==
            [i \in 1..Len(all) |->
                [all[i] EXCEPT !.ok = \A j \in 1..i : all[j].ok]]
    IN  IF fault.kind = "copy"
        THEN [threw |-> TRUE, failed |-> FALSE, fs |-> d, writes |-> <<>>]
        ELSE [threw |-> FALSE,
              failed |-> \E i \in 1..Len(writes) : ~writes[i].ok,
              fs |-> ApplyWrites(d, writes, 1, t),
              writes |-> writes]

\* processImageSet(sourceImagePath, buildRoot), lines 198-219.
\* threw: mkdir or copyFile threw, so the function was left at once.
processImageSet(sourceImagePath, buildRoot, d, t, fault) ==
    LET buildImagePath == BuildImagePath(sourceImagePath, buildRoot)
        sourceWidth == d[sourceImagePath].width
        copy == [path |-> buildImagePath, width |-> sourceWidth, ok |-> TRUE]
        failAt == IF fault.kind = "write" THEN fault.n ELSE 0
        ext == extname(sourceImagePath.name)
        writes ==
            <<copy,
              processOriginalImage(sourceImagePath, sourceWidth, buildImagePath,
                                   failAt = 1)>>
            \o VariantWrites(buildImagePath, sourceWidth, slice1(ext), 1, failAt)
    IN  IF fault.kind = "copy"
        THEN [threw |-> TRUE, failed |-> FALSE, fs |-> d, writes |-> <<>>]
        ELSE [threw |-> FALSE,
              failed |-> \E i \in 1..Len(writes) : ~writes[i].ok,
              fs |-> ApplyWrites(d, writes, 1, t),
              writes |-> writes]

\* imagePattern = /\.(png|jpe?g|webp)$/i, line 258
imagePattern(file) ==
    \E e \in {Ext_png, Ext_jpg, Ext_jpeg, Ext_webp} :
        endsWith(toLowerCase(file), e)

\* /-\d+w$/.test(baseName), line 269
EndsInWidthSuffix(baseName) ==
    \E k \in 1..(Len(baseName) - 2) :
        /\ baseName[k] = "-"
        /\ baseName[Len(baseName)] = "w"
        /\ \A j \in (k + 1)..(Len(baseName) - 1) : baseName[j] \in Digits

\* The test of lines 268-271: a processed variant lying in the source tree.
IsProcessedVariantName(file) ==
    LET baseName == basename(file, extname(file))
    IN  EndsInWidthSuffix(baseName) \/ endsWith(baseName, Str_original)

(***************************************************************************)
(* The git-based script (unnamed/part_001): what it finds and writes.      *)
(***************************************************************************)
Str_safari_pinned_tab_svg == Str_safari_pinned_tab \o Ext_svg

\* The favicon filter of findImages, lines 168-174.
findImagesSkips(item) ==
    \/ startsWith(item, Str_favicon)
    \/ startsWith(item, Str_apple_touch_icon)
    \/ startsWith(item, Str_android_chrome)
    \/ startsWith(item, Str_mstile)
    \/ item = Str_safari_pinned_tab_svg

\* shouldSkipFile(filePath) of scripts/01-process-images.mjs, lines 38-57.
legacy_shouldSkipFile(filePath) ==
    LET filename == filePath.name
        extension == toLowerCase(extname(filename))
    IN  \/ startsWith(filename, Str_favicon)
        \/ startsWith(filename, Str_apple_touch_icon)
        \/ startsWith(filename, Str_android_chrome)
        \/ startsWith(filename, Str_mstile)
        \/ filename = Str_safari_pinned_tab_svg
        \/ extension = Ext_gif
        \/ extension = Ext_svg

\* The filter of findImages, lines 166-176: the files it returns.
findImagesAccepts(item) ==
    /\ \E e \in {Ext_png, Ext_jpg, Ext_jpeg} : endsWith(toLowerCase(item), e)
    /\ ~findImagesSkips(item)

\* process.argv[2] || 'build/temp', line 19; argv holds the arguments after
\* the script name, so argv[1] here is process.argv[2].
DefaultBuildPath == "build/temp"

Arg_force_all == "--force-all"

buildPathOf(argv) ==
    IF Len(argv) >= 1 /\ argv[1] # "" THEN argv[1] ELSE DefaultBuildPath

\* process.argv.includes('--force-all'), line 20
forceAllOf(argv) == \E i \in 1..Len(argv) : argv[i] = Arg_force_all

\* buildImagesDir, lines 24-26: path.resolve(workingDir, buildPath) joined
\* with public_html/assets/images; the build path "." resolves to the
\* working directory, where the source tree is.
gitBuildRoot(buildPath) ==
    IF buildPath = "." THEN SourceRoot ELSE buildPath \o "/" \o SourceRoot

\* imagePath.replace(sourceImagesDir, buildImagesDir), lines 90 and 109
gitImageDirIn(imagePath, buildPath) ==
    [root |-> gitBuildRoot(buildPath), dir |-> imagePath.dir]

\* The same with the default build path.
gitImageDir(imagePath) == gitImageDirIn(imagePath, DefaultBuildPath)

\* The loop of processImage, lines 126-143; failAt is the write that throws.
RECURSIVE gitVariantWrites(_, _, _, _, _)
gitVariantWrites(imageDir, baseName, sourceWidth, i, failAt) ==
    IF i > Len(SIZES) THEN <<>>
    ELSE <<[path |-> InBuildDir(imageDir, VariantName(baseName, SIZES[i], Ext_webp)),
            width |-> ResizedWidth(sourceWidth, SIZES[i], TRUE),
            ok |-> failAt = 0 \/ 2 * i < failAt],
           [path |-> InBuildDir(imageDir, VariantName(baseName, SIZES[i], Ext_png)),
            width |-> ResizedWidth(sourceWidth, SIZES[i], TRUE),
            ok |-> failAt = 0 \/ 2 * i + 1 < failAt]>>
         \o gitVariantWrites(imageDir, baseName, sourceWidth, i + 1, failAt)

\* Mutant: writing the input file onto itself is not refused.
processImage_SameFileAllowed(imagePath, sourceWidth, buildPath, failAt) ==
    LET imageDir == gitImageDirIn(imagePath, buildPath)
        baseName == basename(imagePath.name, extname(imagePath.name))
        sharpOriginalPath == InBuildDir(imageDir, imagePath.name)
    IN  <<[path |-> sharpOriginalPath,
           width |-> sourceWidth,
           ok |-> failAt = 0 \/ 1 < failAt]>>
        \o gitVariantWrites(imageDir, baseName, sourceWidth, 1, failAt)

\* processImage(imagePath), lines 108-151: one try block around all the
\* writes, so the write that throws (failAt, 0 for none) ends them.
\* toFile throws when its output is the file it reads ("Cannot use same
\* file for input and output"), which is the first write when the build
\* directory is the source directory.
processImage(imagePath, sourceWidth, buildPath, failAt) ==
    LET imageDir == gitImageDirIn(imagePath, buildPath)
        baseName == basename(imagePath.name, extname(imagePath.name))
        sharpOriginalPath == InBuildDir(imageDir, imagePath.name)
        stop == IF sharpOriginalPath = imagePath THEN 1 ELSE failAt
    IN  <<[path |-> sharpOriginalPath,
           width |-> sourceWidth,
           ok |-> stop = 0 \/ 1 < stop]>>
        \o gitVariantWrites(imageDir, baseName, sourceWidth, 1, stop)

\* The same with the default build path.
gitProcessImage(imagePath, sourceWidth, failAt) ==
    processImage(imagePath, sourceWidth, DefaultBuildPath, failAt)

\* getChangedImages(), lines 33-77: null (process all) with --force-all or
\* when a git command throws, else the changed files under
\* public_html/assets/images/ that have an image extension.
NullChanged == [isNull |-> TRUE, files |-> {}]

getChangedImages(forceAll, gitWorks, allChangedFiles) ==
    IF forceAll THEN NullChanged
    ELSE IF ~gitWorks THEN NullChanged
    ELSE [isNull |-> FALSE,
          files |-> {f \in allChangedFiles :
                       /\ f.root = SourceRoot
                       /\ f.dir \in {ImagesDir, SubDir}
                       /\ \E e \in {Ext_png, Ext_jpg, Ext_jpeg, Ext_webp} :
                              endsWith(toLowerCase(f.name), e)}]

\* The loop of needsProcessing of the git-based script, lines 94-102: a
\* .webp or .png variant of some width is missing.
gitVariantMissing(imagePath, buildPath, d) ==
    LET imageDir == gitImageDirIn(imagePath, buildPath)
        baseName == basename(imagePath.name, extname(imagePath.name))
    IN  \E i \in 1..Len(SIZES) :
            \/ InBuildDir(imageDir, VariantName(baseName, SIZES[i], Ext_webp))
                   \notin DOMAIN d
            \/ InBuildDir(imageDir, VariantName(baseName, SIZES[i], Ext_png))
                   \notin DOMAIN d

\* Mutant: the list of changed images is not consulted.
gitNeedsProcessing_MissingOnly(imagePath, changedImages, forceAll, buildPath, d) ==
    IF forceAll \/ changedImages.isNull THEN TRUE
    ELSE gitVariantMissing(imagePath, buildPath, d)

\* needsProcessing(imagePath, changedImages), lines 80-105.
gitNeedsProcessing(imagePath, changedImages, forceAll, buildPath, d) ==
    IF forceAll \/ changedImages.isNull THEN TRUE
    ELSE IF imagePath \in changedImages.files THEN TRUE
    ELSE gitVariantMissing(imagePath, buildPath, d)

\* findImages(sourceImagesDir), lines 154-180: nothing when the directory
\* does not exist.
findImages(exists, d) ==
    IF ~exists THEN {}
    ELSE {f \in DOMAIN d : f.root = SourceRoot /\ findImagesAccepts(f.name)}

(***************************************************************************)
(* Bookkeeping of the runs (history, read by the properties only).         *)
(***************************************************************************)
NoFile == [root |-> "", dir |-> "", name |-> <<>>]

\* A path that names no file of the tree.
MissingFile == SourceFile(ImagesDir, <<"z", ".", "p", "n", "g">>)

DirTarget == [isDir |-> TRUE, file |-> NoFile]

FileTarget(f) == [isDir |-> FALSE, file |-> f]

EmptyLog ==
    [processed |-> {}, skipped |-> {}, genError |-> FALSE, envFault |-> FALSE,
     fault |-> NoFault, faultSource |-> NoFile, faulted |-> {}]

EmptyGitLog ==
    [found |-> {}, selected |-> {}, handled |-> {}, succeeded |-> {},
     written |-> {}, faultAt |-> 0, faultSource |-> NoFile, start |-> <<>>,
     ended |-> FALSE, eventsAtStart |-> 0, quiet |-> FALSE]

NoCount == [processed |-> 0, failed |-> 0]

NoChanges == [deleted |-> {}, touched |-> {}]

\* The sources a directory run hands to the staleness decision.
Eligible(f) ==
    /\ imagePattern(f.name)
    /\ ~IsProcessedVariantName(f.name)
    /\ ~shouldSkipFile(f)

EligibleIn(d) == {f \in DOMAIN d : f.root = SourceRoot /\ Eligible(f)}

\* The sources of S that lack one of their expected outputs in d.
Unwritten(S, d) ==
    {f \in S :
        LET outputPaths == getBuildOutputPaths(f, BuildRootDefault)
        IN  \E i \in 1..Len(outputPaths) : ~fileExists(outputPaths[i], d)}

\* What is known of the last run when none has ended normally.
NothingRun == [fresh |-> FALSE, cleanDir |-> FALSE, unwritten |-> {}]

AllFresh(d) ==
    \A f \in EligibleIn(d) : ~needsProcessing(f, BuildRootDefault, d)

(***************************************************************************)
(* Initial state: a source tree of up to MaxTree files, no build output.   *)
(***************************************************************************)
Init ==
    /\ rootExists \in BOOLEAN
    /\ \E files \in SUBSET Universe :
         /\ Cardinality(files) <= MaxTree
         /\ rootExists => files # {}
         /\ ~rootExists => files = {}
         /\ \E w \in SourceWidths :
              fs = [f \in files |-> [mtime |-> 1, width |-> w]]
    /\ now \in 1..(MaxTime - 1)
    /\ phase = "idle"
    /\ target = DirTarget
    /\ todo = {}
    /\ processedCount = 0
    /\ skippedCount = 0
    /\ exitCode = -1
    /\ log = EmptyLog
    /\ pending = NoChanges
    /\ before = [fresh |-> FALSE, cleanDir |-> FALSE, deleted |-> {},
                 touched |-> {}, files |-> {}, unwritten |-> {}]
    /\ last = NothingRun
    /\ runs = 0
    /\ events = 0
    /\ legacyRun = NotRunning
    /\ swiftRun = NotRunning
    /\ buildRun = NotRunning
    /\ deployRun = NotRunning
    /\ args = <<>>
    /\ vcsOk = TRUE
    /\ vcsChanged = {}
    /\ gitCount = NoCount
    /\ gitLog = EmptyGitLog

(***************************************************************************)
(* The environment, between two runs.                                      *)
(***************************************************************************)
\* The author saves a source file again.
Touch(f) ==
    /\ phase \in {"idle", "done"}
    /\ f \in tree
    /\ events < MaxEvents
    /\ now < MaxTime
    /\ now' = now + 1
    /\ fs' = [fs EXCEPT ![f].mtime = now + 1]
    /\ pending' = [pending EXCEPT !.touched = @ \cup {f}]
    /\ events' = events + 1
    /\ phase' = "idle"
    /\ UNCHANGED <<rootExists, target, todo, processedCount, skippedCount,
                   exitCode, log, before, last, runs>>
    /\ UNCHANGED gitVars
    /\ UNCHANGED extVars

\* Somebody deletes a file of the build tree.
Delete(p) ==
    /\ phase \in {"idle", "done"}
    /\ p \in DOMAIN fs
    /\ p.root # SourceRoot
    /\ events < MaxEvents
    /\ fs' = [q \in DOMAIN fs \ {p} |-> fs[q]]
    /\ pending' = [pending EXCEPT !.deleted = @ \cup {p}]
    /\ events' = events + 1
    /\ phase' = "idle"
    /\ UNCHANGED <<rootExists, now, target, todo, processedCount, skippedCount,
                   exitCode, log, before, last, runs>>
    /\ UNCHANGED gitVars
    /\ UNCHANGED extVars

(***************************************************************************)
(* deploy-support/scripts/01-process-images.mjs: main and the walk.        *)
(***************************************************************************)
\* main, lines 284-345, up to the call of the walk: the counters are reset,
\* a missing source path ends the process with exit code 1.
main(t) ==
    /\ phase \in {"idle", "done"}
    /\ runs < MaxRuns
    /\ runs' = runs + 1
    /\ target' = t
    /\ processedCount' = 0
    /\ skippedCount' = 0
    /\ log' = EmptyLog
    /\ before' = [fresh |-> last.fresh, cleanDir |-> last.cleanDir,
                  deleted |-> pending.deleted, touched |-> pending.touched,
                  files |-> DOMAIN fs, unwritten |-> last.unwritten]
    /\ pending' = NoChanges
    /\ LET sourceExists ==
               IF t.isDir THEN rootExists ELSE fileExists(t.file, fs)
       IN  IF ~sourceExists
           THEN /\ phase' = "done"
                /\ exitCode' = 1
                /\ todo' = {}
                /\ last' = NothingRun
           ELSE /\ phase' = "scanning"
                /\ exitCode' = -1
                /\ todo' = IF t.isDir THEN tree ELSE {t.file}
                /\ UNCHANGED last
    /\ UNCHANGED <<fs, rootExists, now, events>>
    /\ UNCHANGED gitVars
    /\ UNCHANGED extVars

\* Mutant: a generation that threw is not counted.
processSourceImage_NoCountOnThrow(sourceImagePath, buildRoot, fault) ==
    IF shouldSkipFile(sourceImagePath)
    THEN /\ fault = NoFault
         /\ UNCHANGED <<fs, processedCount, skippedCount, log, events>>
    ELSE IF ~needsProcessing(sourceImagePath, buildRoot, fs)
    THEN /\ fault = NoFault
         /\ skippedCount' = skippedCount + 1
         /\ log' = [log EXCEPT !.skipped = @ \cup {sourceImagePath}]
         /\ UNCHANGED <<fs, processedCount, events>>
    ELSE \E r \in {processImageSet(sourceImagePath, buildRoot, fs, now, fault)} :
             /\ fault # NoFault => events < MaxEvents
             /\ events' = IF fault = NoFault THEN events ELSE events + 1
             /\ fs' = r.fs
             /\ processedCount' =
                    IF r.threw THEN processedCount ELSE processedCount + 1
             /\ log' = [log EXCEPT
                          !.processed = @ \cup {sourceImagePath},
                          !.genError = @ \/ r.threw \/ r.failed,
                          !.envFault = @ \/ fault # NoFault,
                          !.fault = IF fault # NoFault THEN fault ELSE @,
                          !.faultSource =
                              IF fault # NoFault THEN sourceImagePath ELSE @,
                          !.faulted =
                              IF fault # NoFault
                              THEN @ \cup {sourceImagePath} ELSE @]
             /\ UNCHANGED skippedCount

\* processSourceImage(sourceImagePath, buildRoot), lines 224-248.
processSourceImage(sourceImagePath, buildRoot, fault) ==
    IF shouldSkipFile(sourceImagePath)
    THEN /\ fault = NoFault
         /\ UNCHANGED <<fs, processedCount, skippedCount, log, events>>
    ELSE IF ~needsProcessing(sourceImagePath, buildRoot, fs)
    THEN /\ fault = NoFault
         /\ skippedCount' = skippedCount + 1
         /\ log' = [log EXCEPT !.skipped = @ \cup {sourceImagePath}]
         /\ UNCHANGED <<fs, processedCount, events>>
    ELSE \E r \in {processImageSet(sourceImagePath, buildRoot, fs, now, fault)} :
             /\ fault # NoFault => events < MaxEvents
             /\ events' = IF fault = NoFault THEN events ELSE events + 1
             /\ fs' = r.fs
             /\ processedCount' = processedCount + 1
             /\ log' = [log EXCEPT
                          !.processed = @ \cup {sourceImagePath},
                          !.genError = @ \/ r.threw \/ r.failed,
                          !.envFault = @ \/ fault # NoFault,
                          !.fault = IF fault # NoFault THEN fault ELSE @,
                          !.faultSource =
                              IF fault # NoFault THEN sourceImagePath ELSE @,
                          !.faulted =
                              IF fault # NoFault
                              THEN @ \cup {sourceImagePath} ELSE @]
             /\ UNCHANGED skippedCount

\* One pass of the loop of processSourceDirectory, lines 260-275: the entry
\* file of the listing.  The listing order is the file system's.
processSourceDirectory(file) ==
    /\ phase = "scanning"
    /\ target.isDir
    /\ file \in todo
    /\ todo' = todo \ {file}
    /\ IF imagePattern(file.name) /\ ~IsProcessedVariantName(file.name)
       THEN \E fault \in FaultChoices :
                processSourceImage(file, BuildRootDefault, fault)
       ELSE UNCHANGED <<fs, processedCount, skippedCount, log, events>>
    /\ UNCHANGED <<rootExists, now, phase, target, exitCode, pending, before,
                   last, runs>>
    /\ UNCHANGED gitVars
    /\ UNCHANGED extVars

\* main, line 339: the target is a single file.
mainSingleFile ==
    /\ phase = "scanning"
    /\ ~target.isDir
    /\ target.file \in todo
    /\ todo' = {}
    /\ \E fault \in FaultChoices :
           processSourceImage(target.file, BuildRootDefault, fault)
    /\ UNCHANGED <<rootExists, now, phase, target, exitCode, pending, before,
                   last, runs>>
    /\ UNCHANGED gitVars
    /\ UNCHANGED extVars

\* main, lines 347-360: the report; the process ends with exit code 0.
report ==
    /\ phase = "scanning"
    /\ todo = {}
    /\ phase' = "done"
    /\ exitCode' = 0
    /\ last' = [fresh |-> AllFresh(fs),
                cleanDir |-> target.isDir /\ ~log.envFault,
                unwritten |-> Unwritten(log.processed, fs)]
    /\ UNCHANGED <<fs, rootExists, now, target, todo, processedCount,
                   skippedCount, log, pending, before, runs, events>>
    /\ UNCHANGED gitVars
    /\ UNCHANGED extVars

Next ==
    \/ \E t \in {DirTarget} \cup {FileTarget(f) : f \in tree \cup {MissingFile}} :
           main(t)
    \/ \E file \in todo : processSourceDirectory(file)
    \/ mainSingleFile
    \/ report
    \/ \E f \in tree : Touch(f)
    \/ \E p \in DOMAIN fs : Delete(p)

Spec == Init /\ [][Next]_vars

\* The loop of processImages, lines 204-211, when no write throws: the
\* files after processImage has run for every image of the set.
RECURSIVE gitProcessAll(_, _, _, _)
gitProcessAll(images, buildPath, d, t) ==
    IF images = {} THEN d
    ELSE LET imagePath == CHOOSE x \in images : TRUE
         IN  gitProcessAll(
                 images \ {imagePath}, buildPath,
                 ApplyWrites(d, processImage(imagePath, d[imagePath].width,
                                             buildPath, 0), 1, t),
                 t)

\* processImages(), lines 183-219, as a function of its inputs: the files
\* after a run in which no write throws.
processImages(argv, gitWorks, allChangedFiles, exists, d, t) ==
    LET forceAll == forceAllOf(argv)
        buildPath == buildPathOf(argv)
        changedImages == getChangedImages(forceAll, gitWorks, allChangedFiles)
        imagesToProcess ==
            {imagePath \in findImages(exists, d) :
                 gitNeedsProcessing(imagePath, changedImages, forceAll,
                                    buildPath, d)}
    IN  gitProcessAll(imagesToProcess, buildPath, d, t)

(***************************************************************************)
(* The git-based script (unnamed/part_001) as a state machine of its own.  *)
(* It shares the file system, the clock and the counters of runs and       *)
(* events; its phases are "git-idle", "git-run" and "git-done".            *)
(***************************************************************************)
\* The invocations: no argument, the build path, --force-all alone, the
\* build path and --force-all, and the working directory as build path.
ArgChoices ==
    {<<>>, <<DefaultBuildPath>>, <<Arg_force_all>>,
     <<DefaultBuildPath, Arg_force_all>>, <<".">>}

\* The write of processImage that throws: 0 for none, -1 for mkdirSync
\* (line 113, outside the try block), 1 for the sharpened original, 2.. for
\* the variants.
GitFaultChoices == {0, -1} \cup 1..(1 + 2 * Len(SIZES))

GitInit ==
    /\ rootExists \in BOOLEAN
    /\ \E files \in SUBSET Universe :
         /\ Cardinality(files) <= MaxTree
         /\ rootExists => files # {}
         /\ ~rootExists => files = {}
         /\ \E w \in {x \in SourceWidths : \A y \in SourceWidths : x <= y} :
              fs = [f \in files |-> [mtime |-> 1, width |-> w]]
         /\ \E changed \in SUBSET files :
              /\ Cardinality(changed) <= 1
              /\ vcsChanged = changed
    /\ vcsOk \in BOOLEAN
    /\ now = 1
    /\ phase = "git-idle"
    /\ target = DirTarget
    /\ todo = {}
    /\ processedCount = 0
    /\ skippedCount = 0
    /\ exitCode = -1
    /\ log = EmptyLog
    /\ pending = NoChanges
    /\ before = [fresh |-> FALSE, cleanDir |-> FALSE, deleted |-> {},
                 touched |-> {}, files |-> {}, unwritten |-> {}]
    /\ last = NothingRun
    /\ runs = 0
    /\ events = 0
    /\ legacyRun = NotRunning
    /\ swiftRun = NotRunning
    /\ buildRun = NotRunning
    /\ deployRun = NotRunning
    /\ args = <<>>
    /\ gitCount = NoCount
    /\ gitLog = EmptyGitLog

\* What the git-based script leaves alone.
tsVars == <<target, processedCount, skippedCount, log, before, last>>

\* A source file gets a new modification time and the same content: git
\* reports no change.
GitTouch(f) ==
    /\ phase \in {"git-idle", "git-done"}
    /\ f \in tree
    /\ events < MaxEvents
    /\ now < MaxTime
    /\ now' = now + 1
    /\ fs' = [fs EXCEPT ![f].mtime = now + 1]
    /\ pending' = [pending EXCEPT !.touched = @ \cup {f}]
    /\ events' = events + 1
    /\ phase' = "git-idle"
    /\ UNCHANGED <<rootExists, todo, exitCode, runs, args, vcsOk, vcsChanged,
                   gitCount, gitLog>>
    /\ UNCHANGED tsVars
    /\ UNCHANGED extVars

\* The author changes a source file: git diff reports it.
GitEdit(f) ==
    /\ phase \in {"git-idle", "git-done"}
    /\ f \in tree
    /\ f \notin vcsChanged
    /\ events < MaxEvents
    /\ now < MaxTime
    /\ now' = now + 1
    /\ fs' = [fs EXCEPT ![f].mtime = now + 1]
    /\ vcsChanged' = vcsChanged \cup {f}
    /\ pending' = [pending EXCEPT !.touched = @ \cup {f}]
    /\ events' = events + 1
    /\ phase' = "git-idle"
    /\ UNCHANGED <<rootExists, todo, exitCode, runs, args, vcsOk, gitCount,
                   gitLog>>
    /\ UNCHANGED tsVars
    /\ UNCHANGED extVars

\* Somebody deletes a file of the build tree.
GitDelete(p) ==
    /\ phase \in {"git-idle", "git-done"}
    /\ p \in DOMAIN fs
    /\ p.root # SourceRoot
    /\ events < MaxEvents
    /\ fs' = [q \in DOMAIN fs \ {p} |-> fs[q]]
    /\ pending' = [pending EXCEPT !.deleted = @ \cup {p}]
    /\ events' = events + 1
    /\ phase' = "git-idle"
    /\ UNCHANGED <<rootExists, now, todo, exitCode, runs, args, vcsOk,
                   vcsChanged, gitCount, gitLog>>
    /\ UNCHANGED tsVars
    /\ UNCHANGED extVars

\* Later commits that touch no image: the three diffs report nothing.
GitAdvance ==
    /\ phase \in {"git-idle", "git-done"}
    /\ vcsChanged # {}
    /\ events < MaxEvents
    /\ vcsChanged' = {}
    /\ events' = events + 1
    /\ phase' = "git-idle"
    /\ UNCHANGED <<fs, rootExists, now, todo, exitCode, runs, args, vcsOk,
                   pending, gitCount, gitLog>>
    /\ UNCHANGED tsVars
    /\ UNCHANGED extVars

\* processImages(), lines 183-202: the changed images, the images found,
\* the filter; with nothing to process the function returns and the
\* process ends with exit code 0.
gitMain(argv) ==
    /\ phase \in {"git-idle", "git-done"}
    /\ runs < MaxRuns
    /\ runs' = runs + 1
    /\ args' = argv
    /\ gitCount' = NoCount
    /\ pending' = NoChanges
    /\ LET forceAll == forceAllOf(argv)
           buildPath == buildPathOf(argv)
           changedImages == getChangedImages(forceAll, vcsOk, vcsChanged)
           allImages == findImages(rootExists, fs)
           imagesToProcess ==
               {imagePath \in allImages :
                    gitNeedsProcessing(imagePath, changedImages, forceAll,
                                       buildPath, fs)}
       IN  /\ todo' = imagesToProcess
           /\ phase' = IF imagesToProcess = {} THEN "git-done" ELSE "git-run"
           /\ exitCode' = IF imagesToProcess = {} THEN 0 ELSE -1
           /\ gitLog' = [EmptyGitLog EXCEPT
                            !.found = allImages,
                            !.selected = imagesToProcess,
                            !.start = fs,
                            !.ended = imagesToProcess = {},
                            !.eventsAtStart = events,
                            !.quiet = /\ gitLog.ended
                                      /\ args = argv
                                      /\ gitLog.eventsAtStart = events]
    /\ UNCHANGED <<fs, rootExists, now, events, vcsOk, vcsChanged>>
    /\ UNCHANGED tsVars
    /\ UNCHANGED extVars

\* One pass of the loop of processImages, lines 204-211, with the call of
\* processImage.  mkdirSync is outside the try block of processImage: when
\* it throws, processImages rejects and the process ends with exit code 1.
gitProcessStep(imagePath) ==
    /\ phase = "git-run"
    /\ imagePath \in todo
    /\ \E failAt \in GitFaultChoices :
         /\ failAt # 0 => events < MaxEvents
         /\ events' = IF failAt = 0 THEN events ELSE events + 1
         /\ IF failAt = -1
            THEN /\ phase' = "git-done"
                 /\ exitCode' = 1
                 /\ todo' = {}
                 /\ gitLog' = [gitLog EXCEPT !.faultAt = failAt,
                                             !.faultSource = imagePath]
                 /\ UNCHANGED <<fs, gitCount>>
            ELSE \E writes \in {processImage(imagePath, fs[imagePath].width,
                                              buildPathOf(args), failAt)} :
                   LET success == \A i \in 1..Len(writes) : writes[i].ok
                   IN  /\ fs' = ApplyWrites(fs, writes, 1, now)
                       /\ gitCount' =
                              IF success
                              THEN [gitCount EXCEPT !.processed = @ + 1]
                              ELSE [gitCount EXCEPT !.failed = @ + 1]
                       /\ gitLog' =
                              [gitLog EXCEPT
                                 !.handled = @ \cup {imagePath},
                                 !.succeeded =
                                     IF success THEN @ \cup {imagePath} ELSE @,
                                 !.written =
                                     @ \cup {writes[i].path :
                                               i \in {j \in 1..Len(writes) :
                                                          writes[j].ok}},
                                 !.faultAt = IF failAt # 0 THEN failAt ELSE @,
                                 !.faultSource =
                                     IF failAt # 0 THEN imagePath ELSE @]
                       /\ todo' = todo \ {imagePath}
                       /\ UNCHANGED <<phase, exitCode>>
    /\ UNCHANGED <<rootExists, now, runs, args, vcsOk, vcsChanged, pending>>
    /\ UNCHANGED tsVars
    /\ UNCHANGED extVars

\* processImages(), lines 213-218: the summary; the process ends with exit
\* code 0.
gitReport ==
    /\ phase = "git-run"
    /\ todo = {}
    /\ phase' = "git-done"
    /\ exitCode' = 0
    /\ gitLog' = [gitLog EXCEPT !.ended = TRUE]
    /\ UNCHANGED <<fs, rootExists, now, todo, runs, events, args, vcsOk,
                   vcsChanged, pending, gitCount>>
    /\ UNCHANGED tsVars
    /\ UNCHANGED extVars

GitNext ==
    \/ \E argv \in ArgChoices : gitMain(argv)
    \/ \E imagePath \in todo : gitProcessStep(imagePath)
    \/ gitReport
    \/ \E f \in tree : GitTouch(f)
    \/ \E f \in tree : GitEdit(f)
    \/ \E p \in DOMAIN fs : GitDelete(p)
    \/ GitAdvance

GitSpec == GitInit /\ [][GitNext]_vars

(***************************************************************************)
(* Both scripts: a behaviour is a behaviour of the timestamp script or one *)
(* of the git-based script (the phases keep the two apart).                *)
(***************************************************************************)
ScriptsInit == Init \/ GitInit

ScriptsNext == Next \/ GitNext

ScriptsSpec == ScriptsInit /\ [][ScriptsNext]_vars

(***************************************************************************)
(* Vocabulary of the properties.                                           *)
(***************************************************************************)
SeqRange(q) == {q[i] : i \in 1..Len(q)}

\* The expected artifacts of a source: the paths of getBuildOutputPaths.
ExpectedArtifacts(f) == SeqRange(getBuildOutputPaths(f, BuildRootDefault))

MinOf(S) == CHOOSE x \in S : \A y \in S : x <= y

AllArtifactsExist(f, d) == \A p \in ExpectedArtifacts(f) : p \in DOMAIN d

OldestArtifactTime(f, d) == MinOf({d[p].mtime : p \in ExpectedArtifacts(f)})

\* A directory run has ended normally.
DirRunDone == phase = "done" /\ exitCode = 0 /\ target.isDir

\* A source image: a file of the tree with an image extension.
IsSourceImage(f) == f.root = SourceRoot /\ imagePattern(f.name)

\* Skip-listed in the words of the specification: favicon and icon
\* prefixes, extensions .svg and .gif.
SkipListed(f) ==
    \/ startsWith(f.name, Str_favicon)
    \/ startsWith(f.name, Str_apple_touch_icon)
    \/ startsWith(f.name, Str_android_chrome)
    \/ startsWith(f.name, Str_mstile)
    \/ startsWith(f.name, Str_safari_pinned_tab)
    \/ toLowerCase(extname(f.name)) \in {Ext_svg, Ext_gif}

ArtifactsUpToDate(f) ==
    \A p \in ExpectedArtifacts(f) :
        p \in DOMAIN fs /\ fs[p].mtime >= fs[f].mtime

(***************************************************************************)
(* C1.  After a directory run that ends without a generation error, every  *)
(* source image that is not skip-listed has all the paths of               *)
(* getBuildOutputPaths on disk, none older than the source.                *)
(***************************************************************************)
\* C1 as stated: every source image that is not skip-listed.
C1_AllArtifactsAfterRun ==
    (DirRunDone /\ ~log.genError) =>
        \A f \in tree : (IsSourceImage(f) /\ ~SkipListed(f)) => ArtifactsUpToDate(f)

\* C1 amended: the walk leaves out names that end in -<digits>w or
\* -original (lines 268-271), and shouldSkipFile matches safari-pinned-tab
\* anywhere in the name (line 45), so those have no artifacts.
C1_ArtifactsAfterRun ==
    (DirRunDone /\ ~log.genError) =>
        \A f \in tree :
            (IsSourceImage(f) /\ ~shouldSkipFile(f)
                 /\ ~IsProcessedVariantName(f.name))
                => ArtifactsUpToDate(f)

C1_Witness ==
    /\ DirRunDone
    /\ ~log.genError
    /\ \E f \in log.processed : ArtifactsUpToDate(f)
    /\ \E f \in log.skipped : ArtifactsUpToDate(f) /\ fs[f].mtime < now

(***************************************************************************)
(* C2.  Idempotence: a directory run that follows a directory run, with    *)
(* no change in between and no I/O fault in either, processes nothing,     *)
(* skips every eligible source and leaves the set of files unchanged.      *)
(***************************************************************************)
SecondRunDone ==
    /\ DirRunDone
    /\ before.cleanDir
    /\ before.deleted = {}
    /\ before.touched = {}
    /\ ~log.envFault

\* C2: a run that follows a run with no change to sources or outputs in
\* between processes no source.
C2_Idempotent ==
    SecondRunDone =>
        /\ processedCount = 0
        /\ log.skipped = EligibleIn(fs)
        /\ DOMAIN fs = before.files

(***************************************************************************)
(* C3.  Self-healing: from a state where every source is fresh, deleting   *)
(* one expected artifact of a source makes the next directory run process  *)
(* exactly that source, and its artifacts exist again afterwards.          *)
(***************************************************************************)
AfterDeletionOf(p) ==
    /\ DirRunDone
    /\ before.fresh
    /\ before.touched = {}
    /\ before.deleted = {p}

\* C3: the run after the deletion processes exactly the source whose
\* artifact was deleted, and the artifacts of that source exist again.
C3_ExactlyThatSource ==
    \A f \in EligibleIn(fs) : \A p \in ExpectedArtifacts(f) :
        AfterDeletionOf(p) =>
            /\ log.processed = {f}
            /\ ~log.envFault => AllArtifactsExist(f, fs)

(***************************************************************************)
(* C4.  Monotonic staleness: from a state where every source is fresh,     *)
(* touching one source makes the next directory run process that source    *)
(* and skip every other one.                                               *)
(***************************************************************************)
AfterTouchOf(f) ==
    /\ DirRunDone
    /\ before.fresh
    /\ before.deleted = {}
    /\ before.touched = {f}

\* C4: after the mtime of one source was raised above the mtimes of its
\* artifacts, the next run processes that source.
C4_MonotonicStaleness ==
    \A f \in EligibleIn(fs) :
        AfterTouchOf(f) =>
            /\ log.processed = {f}
            /\ log.skipped = EligibleIn(fs) \ {f}

C4_Witness ==
    \E f \in EligibleIn(fs) :
        /\ AfterTouchOf(f)
        /\ log.processed = {f}
        /\ log.skipped # {}

(***************************************************************************)
(* C5.  needsProcessing is true exactly when an expected artifact is       *)
(* missing, or all exist and the source is strictly newer than the oldest. *)
(***************************************************************************)
StaleByDefinition(f, d) ==
    \/ ~AllArtifactsExist(f, d)
    \/ AllArtifactsExist(f, d) /\ d[f].mtime > OldestArtifactTime(f, d)

Decided(f) == f \in todo /\ f \notin todo' /\ Eligible(f)

Skips(f) ==
    /\ skippedCount' = skippedCount + 1
    /\ processedCount' = processedCount
    /\ f \in log'.skipped
    /\ fs' = fs

Processes(f) ==
    /\ processedCount' = processedCount + 1
    /\ skippedCount' = skippedCount
    /\ f \in log'.processed

C6_TieStep ==
    \A f \in tree :
        (Decided(f) /\ AllArtifactsExist(f, fs)) =>
            /\ fs[f].mtime = OldestArtifactTime(f, fs) => Skips(f)
            /\ Processes(f) => fs[f].mtime > OldestArtifactTime(f, fs)

\* C6: a source whose mtime equals the oldest artifact mtime is skipped;
\* the comparison is strict.
C6_TieBreak == [][C6_TieStep]_vars

C6_Witness ==
    /\ phase = "done"
    /\ exitCode = 0
    /\ \E f \in log.skipped :
         /\ AllArtifactsExist(f, fs)
         /\ fs[f].mtime = OldestArtifactTime(f, fs)

(***************************************************************************)
(* C7.  Exclusion: the step that visits a skip-listed file writes nothing  *)
(* and changes neither counter.                                            *)
(***************************************************************************)
C7_ExclusionStep ==
    \A f \in todo :
        (f \notin todo' /\ SkipListed(f)) =>
            /\ fs' = fs
            /\ processedCount' = processedCount
            /\ skippedCount' = skippedCount

\* C7: a file matched by shouldSkipFile is neither processed nor counted
\* and leaves no output.
C7_Exclusion == [][C7_ExclusionStep]_vars

C7_Witness ==
    /\ phase = "done"
    /\ exitCode = 0
    /\ ~target.isDir
    /\ SkipListed(target.file)
    /\ toLowerCase(extname(target.file.name)) = Ext_svg
    /\ processedCount = 0
    /\ skippedCount = 0

(***************************************************************************)
(* C8.  Two distinct sources of one tree are written to disjoint sets of   *)
(* output paths, by the timestamp script and by the git-based script.      *)
(***************************************************************************)
\* The paths the generator of the timestamp script writes for f.
tsWritePaths(f) ==
    {w.path : w \in SeqRange(
        processImageSet(f, BuildRootDefault, fs, now, NoFault).writes)}

\* The paths processImage of the git-based script writes for f.
gitWritePaths(f) ==
    {w.path : w \in SeqRange(gitProcessImage(f, fs[f].width, 0))}

\* The generator of the timestamp script can be run for f.
tsGenerates(f) == IsSourceImage(f) /\ ~shouldSkipFile(f)


DisjointOutputs(f, g) ==
    /\ (tsGenerates(f) /\ tsGenerates(g))
           => tsWritePaths(f) \cap tsWritePaths(g) = {}
    /\ (findImagesAccepts(f.name) /\ findImagesAccepts(g.name))
           => gitWritePaths(f) \cap gitWritePaths(g) = {}

\* C8: any two distinct sources that a run processed, also two of one
\* directory, have disjoint sets of written paths, in both scripts.
C8_AlwaysDisjoint ==
    \A f \in log.processed : \A g \in log.processed \ {f} :
        DisjointOutputs(f, g)

(***************************************************************************)
(* C9.  getBuildOutputPaths returns 11 paths for a source with an          *)
(* accepted extension.                                                     *)
(***************************************************************************)
AcceptedExtension(f) ==
    extname(f.name) \in {Ext_png, Ext_jpg, Ext_jpeg, Ext_webp}

\* The sources the staleness decision was taken for in this run.
DecidedSources == log.processed \cup log.skipped

\* C9 as stated: 11 pairwise distinct paths.
C9_ElevenDistinct ==
    \A f \in DecidedSources :
        AcceptedExtension(f) =>
            /\ Len(getBuildOutputPaths(f, BuildRootDefault)) = 11
            /\ Cardinality(ExpectedArtifacts(f)) = 11

\* C9 amended: 11 entries, pairwise distinct unless the source is a .webp
\* file, whose two formats coincide: then 6 distinct paths.
C9_ArtifactSetSize ==
    \A f \in DecidedSources :
        AcceptedExtension(f) =>
            /\ Len(getBuildOutputPaths(f, BuildRootDefault)) = 11
            /\ Cardinality(ExpectedArtifacts(f)) =
                   IF extname(f.name) = Ext_webp THEN 6 ELSE 11

C9_Witness ==
    /\ DirRunDone
    /\ \E f \in log.skipped :
         extname(f.name) = Ext_webp /\ ExpectedArtifacts(f) \subseteq DOMAIN fs
    /\ \E f \in log.skipped :
         extname(f.name) # Ext_webp /\ ExpectedArtifacts(f) \subseteq DOMAIN fs

(***************************************************************************)
(* C10.  No upscaling: the variant of target width W of a source of width  *)
(* S has width min(W, S), in the timestamp script and in the git-based     *)
(* script.                                                                 *)
(***************************************************************************)
Min2(a, b) == IF a < b THEN a ELSE b

\* C10: every variant has width min(W, S), in both scripts.
C10_NoUpscaling ==
    \A f \in EligibleIn(fs) : \A i \in 1..Len(SIZES) :
        LET paths == getBuildOutputPaths(f, BuildRootDefault)
            gitWrites == gitProcessImage(f, fs[f].width, 0)
            expected == Min2(SIZES[i], fs[f].width)
        IN  /\ \A k \in {2 * i, 2 * i + 1} :
                  /\ paths[k] \in DOMAIN fs => fs[paths[k]].width = expected
                  /\ gitWrites[k].width = expected

(***************************************************************************)
(* C11.  Fault isolation in the timestamp script: a write that fails is    *)
(* caught, the other artifacts of the source are still written, and the    *)
(* other sources of the tree are still decided.                            *)
(***************************************************************************)
\* sharp has an output method for the i-th expected artifact of g.
FormatWritable(g, i) ==
    \/ i % 2 = 0
    \/ slice1(extname(g.name)) \in SharpFormatMethods

\* A directory run has ended in which the n-th write of one source failed.
WriteFaultRunDone == DirRunDone /\ log.fault.kind = "write"

\* C11: after a run in which one write of a source failed, the run ended
\* with exit code 0, every other artifact of that source was written in
\* this run, and every eligible source was decided: processed, or skipped
\* because it is fresh; the sources processed without a fault of their own
\* have their artifacts.
C11_FaultIsolation ==
    WriteFaultRunDone =>
        LET g == log.faultSource
            paths == getBuildOutputPaths(g, BuildRootDefault)
        IN  /\ g \in log.processed
            /\ \A i \in 1..Len(paths) :
                   (i # log.fault.n /\ FormatWritable(g, i)) =>
                       /\ paths[i] \in DOMAIN fs
                       /\ fs[paths[i]].mtime = now
            /\ EligibleIn(fs) = log.processed \cup log.skipped
            /\ \A h \in log.skipped : ~needsProcessing(h, BuildRootDefault, fs)
            /\ \A h \in log.processed \ log.faulted : \A i \in 1..Len(paths) :
                   FormatWritable(h, i) =>
                       getBuildOutputPaths(h, BuildRootDefault)[i] \in DOMAIN fs

C11_Witness ==
    /\ WriteFaultRunDone
    /\ log.fault.n \in 2..10
    /\ FormatWritable(log.faultSource, log.fault.n)
    /\ getBuildOutputPaths(log.faultSource, BuildRootDefault)[log.fault.n]
           \notin DOMAIN fs
    /\ \E h \in log.processed \ {log.faultSource} : AllArtifactsExist(h, fs)

(***************************************************************************)
(* C12.  Fault isolation in the git-based script: when one write of a      *)
(* source fails, the other outputs of the source are still written and     *)
(* the other selected sources are still processed.                         *)
(***************************************************************************)
\* A run of the git-based script has ended with exit code 0.
GitRunDone == phase = "git-done" /\ exitCode = 0

\* The outputs processImage writes for f in the current run.
gitOutputsOf(f) ==
    {w.path : w \in SeqRange(processImage(f, fs[f].width, buildPathOf(args), 0))}

\* C12: after a run of the git-based script in which one write of a source
\* failed, every other output of that source was written in the run and
\* every selected source was handed to processImage.
C12_GitFaultIsolation ==
    (GitRunDone /\ gitLog.faultAt >= 1) =>
        LET g == gitLog.faultSource
            writes == processImage(g, fs[g].width, buildPathOf(args), 0)
        IN  /\ \A i \in 1..Len(writes) :
                   i # gitLog.faultAt => writes[i].path \in gitLog.written
            /\ gitLog.selected = gitLog.handled

(***************************************************************************)
(* C13.  A missing source image root is fatal: the process ends with a     *)
(* non-zero exit code and nothing is written, in both scripts.             *)
(***************************************************************************)
\* A run of either script has ended.
AnyRunEnded == phase \in {"done", "git-done"}

\* C13: when the source image root does not exist, a run of the timestamp
\* script or of the git-based script ends with a non-zero exit code and
\* leaves no file behind.
C13_MissingRootFatal ==
    (AnyRunEnded /\ ~rootExists) =>
        /\ exitCode > 0
        /\ DOMAIN fs = {}

(***************************************************************************)
(* C14.  VCS fail-open: without --force-all, when a git query fails, every *)
(* source image found is selected and the files after the run are those a  *)
(* run with --force-all leaves from the same initial state.                *)
(***************************************************************************)
\* A run without --force-all has ended in which git failed and no write
\* threw.
FailOpenRunDone ==
    /\ GitRunDone
    /\ ~forceAllOf(args)
    /\ ~vcsOk
    /\ gitLog.faultAt = 0

\* The same command line with --force-all added.
WithForceAll(argv) == argv \o <<Arg_force_all>>

\* The files a run with --force-all leaves from the state the current run
\* started in.
ForceAllFiles ==
    DOMAIN processImages(WithForceAll(args), vcsOk, vcsChanged, rootExists,
                         gitLog.start, now)

\* C14: after a run without --force-all in which git failed, every source
\* image found was selected, and the set of files is the set a run with
\* --force-all produces from the same initial state.
C14_FailOpen ==
    FailOpenRunDone =>
        /\ gitLog.selected = gitLog.found
        /\ DOMAIN fs = ForceAllFiles

\* The same for the runs whose command line names the build path, so that
\* --force-all is not the first argument.
C14_FailOpenWithBuildPath ==
    (FailOpenRunDone /\ Len(args) >= 1) =>
        /\ gitLog.selected = gitLog.found
        /\ DOMAIN fs = ForceAllFiles

(***************************************************************************)
(* C15.  Two layers under the VCS-diff strategy: a source git reports as   *)
(* unchanged is still selected when the second layer finds it stale.       *)
(***************************************************************************)
\* A run without --force-all in which git succeeded has made its selection.
VcsRunStarted ==
    /\ phase \in {"git-run", "git-done"}
    /\ runs > 0
    /\ ~forceAllOf(args)
    /\ vcsOk

BaseName(f) == basename(f.name, extname(f.name))

\* The outputs of the git-based generator for f that exist in d.
gitExistingOutputs(f, d) ==
    {w.path : w \in SeqRange(processImage(f, d[f].width, buildPathOf(args), 0))}
        \cap (DOMAIN d \ {f})

\* f is newer than its oldest existing output.
gitNewerThanOutputs(f, d) ==
    /\ gitExistingOutputs(f, d) # {}
    /\ d[f].mtime > MinOf({d[p].mtime : p \in gitExistingOutputs(f, d)})

\* C15 as stated: a source that git reports as unchanged is selected when
\* its modification time is strictly newer than its oldest existing output.
C15_VcsOrTimestamp ==
    VcsRunStarted =>
        \A f \in gitLog.found :
            (f \notin vcsChanged /\ gitNewerThanOutputs(f, gitLog.start))
                => f \in gitLog.selected

\* C15 amended: the second layer tests existence only.  The selection is
\* the union of the sources git reports as changed and the sources with a
\* missing .webp or .png variant; modification times are not read.
C15_VcsOrMissing ==
    VcsRunStarted =>
        gitLog.selected =
            {f \in gitLog.found :
                 \/ f \in vcsChanged
                 \/ \E i \in 1..Len(SIZES) : \E e \in {Ext_webp, Ext_png} :
                        InBuildDir(gitImageDirIn(f, buildPathOf(args)),
                                   VariantName(BaseName(f), SIZES[i], e))
                            \notin DOMAIN gitLog.start}

C15_Witness ==
    /\ VcsRunStarted
    /\ phase = "git-done"
    /\ gitLog.selected # {}
    /\ \E f \in gitLog.found \ gitLog.selected :
           gitNewerThanOutputs(f, gitLog.start)

(***************************************************************************)
(* C16.  Self-healing under the VCS-diff strategy: a source git reports as *)
(* unchanged is selected when one of the files the generator writes for it *)
(* is missing, and the run writes all of them again.                       *)
(***************************************************************************)
\* The files processImage writes for f when no write throws.
gitWrittenFor(f, d) ==
    {w.path : w \in {x \in SeqRange(processImage(f, d[f].width,
                                                  buildPathOf(args), 0)) : x.ok}}

\* C16: in a run in which git succeeds and does not report f, if a file
\* the generator writes for f (the sharpened original or a variant) is
\* missing when the run starts, f is selected, and after a run without a
\* failed write all those files exist.
C16_GitSelfHealing ==
    VcsRunStarted =>
        \A f \in gitLog.found :
            (/\ f \notin vcsChanged
             /\ \E p \in gitWrittenFor(f, gitLog.start) :
                    p \notin DOMAIN gitLog.start)
                => /\ f \in gitLog.selected
                   /\ (GitRunDone /\ gitLog.faultAt = 0)
                          => gitWrittenFor(f, gitLog.start) \subseteq DOMAIN fs

(***************************************************************************)
(* C17.  Idempotence of the git-based script: the second of two runs       *)
(* without --force-all, with nothing changed in between, selects and       *)
(* processes nothing.                                                      *)
(***************************************************************************)
\* The current run has made its selection; it follows a run that ended
\* without a failed write, has the same arguments, and no source, output
\* or git state changed in between.
SecondGitRun ==
    /\ phase \in {"git-run", "git-done"}
    /\ gitLog.quiet
    /\ ~forceAllOf(args)

\* C17: the second of two such runs selects no image, processes none and
\* leaves the files as they were.
C17_GitIdempotent ==
    SecondGitRun =>
        /\ gitLog.selected = {}
        /\ gitCount.processed = 0
        /\ fs = gitLog.start

(***************************************************************************)
(* C18.  Output naming in the git-based script: B-original{E} and, for     *)
(* each width W, B-{W}w.webp and B-{W}w{E}, in the mirrored directory.     *)
(***************************************************************************)
\* The names of the filesystem contract for f in the build directory of
\* the current run.
ContractOutputs(f) ==
    LET imageDir == gitImageDirIn(f, buildPathOf(args))
        E == extname(f.name)
    IN  {InBuildDir(imageDir, BaseName(f) \o Str_original \o E)}
        \cup {InBuildDir(imageDir, VariantName(BaseName(f), SIZES[i], e)) :
                 i \in 1..Len(SIZES), e \in {Ext_webp, E}}

\* C18: every source with an accepted extension that a run of the
\* git-based script processed without a failed write has B-original{E},
\* B-{W}w.webp and B-{W}w{E} written by that run.
C18_GitOutputNaming ==
    GitRunDone =>
        \A f \in gitLog.succeeded :
            AcceptedExtension(f) =>
                /\ ContractOutputs(f) \subseteq gitLog.written
                /\ ContractOutputs(f) \subseteq DOMAIN fs

(***************************************************************************)
(* C19.  Source images are read-only to both scripts.                      *)
(***************************************************************************)
\* The files under the source tree, with their times and widths.
SourceFiles(d) == [p \in {q \in DOMAIN d : q.root = SourceRoot} |-> d[p]]

\* The paths created, overwritten or deleted by a step.
ChangedPaths(d, e) ==
    {p \in DOMAIN d \cup DOMAIN e :
        \/ p \notin DOMAIN d
        \/ p \notin DOMAIN e
        \/ d[p] # e[p]}

\* A step of one of the two scripts; the steps of the environment lead to
\* an idle phase.
ScriptStep == phase' \in {"scanning", "done", "git-run", "git-done"}

\* The build output trees: that of the timestamp script and that of the
\* git-based script for the build path of a run.
BuildTrees(argv) ==
    {BuildRootDefault \o "/temp/" \o SourceRoot, gitBuildRoot(buildPathOf(argv))}
        \ {SourceRoot}

C19_Step ==
    ScriptStep =>
        /\ SourceFiles(fs') = SourceFiles(fs)
        /\ \A p \in ChangedPaths(fs, fs') : p.root \in BuildTrees(args')

\* C19: no step of a run of the timestamp script or of the git-based script
\* creates, overwrites or deletes a file under the source tree; every file
\* it writes is in the build output tree.
C19_SourcesReadOnly == [][C19_Step]_vars

\* A run of the git-based script whose build path is the working directory
\* has handled a source image.
C19_Witness ==
    /\ phase = "git-done"
    /\ buildPathOf(args) = "."
    /\ gitLog.handled # {}
    /\ tree # {}

\* A run of either script has written build files next to the sources.
C19_WroteBuildFiles ==
    /\ AnyRunEnded
    /\ tree # {}
    /\ \E p \in DOMAIN fs : p.root \in BuildTrees(args)

(***************************************************************************)
(* C20.  Counting in the timestamp script.                                 *)
(***************************************************************************)
\* A directory run of the timestamp script, under way or completed.
DirRun == phase \in {"scanning", "done"} /\ target.isDir /\ exitCode # 1

RunReached(f) ==
    /\ phase = "done"
    /\ exitCode = 0
    /\ IF target.isDir THEN Eligible(f) ELSE target.file = f

\* f was processed in the run before this one and in this one and an
\* expected artifact of f was absent at the end of both.
FailsInEveryRun(f) ==
    /\ f \in before.unwritten
    /\ f \in Unwritten({f}, fs)

\* C21: a source processed in the last run with an expected artifact left
\* unwritten, and with an expected artifact unwritten at the end of this
\* run too, was selected for processing in this run, not skipped, and
\* counted once.
C21_RetryAcrossRuns ==
    \A f \in tree :
        (RunReached(f) /\ FailsInEveryRun(f)) =>
            /\ f \in log.processed
            /\ f \notin log.skipped
            /\ processedCount = Cardinality(log.processed)

\* The second of two runs has ended; a write of f failed in the first and
\* a write of f failed in the second.
C21_Witness ==
    \E f \in tree :
        /\ RunReached(f)
        /\ FailsInEveryRun(f)
        /\ runs = 2
        /\ log.genError

(***************************************************************************)
(* C22.  Decision and generation agree on the paths.                       *)
(***************************************************************************)
\* The writes of processImageSet for f when no I/O fault occurs, without
\* the verbatim copy, which is the first.
GeneratedWrites(f) ==
    LET writes == processImageSet(f, BuildRootDefault, fs, now, NoFault).writes
    IN  {writes[i] : i \in 2..Len(writes)}

\* The files of the build tree of the timestamp script.
BuildFiles(d) ==
    {p \in DOMAIN d : p.root = BuildDirOf(NoFile, BuildRootDefault).root}

\* C22: for every source image whose generation steps all succeed, the
\* paths processImageSet writes, the copy left aside, are the paths of
\* getBuildOutputPaths; and after a first directory run without a failed
\* step the build tree holds those paths and the copies, nothing else.
C22_PathsAgree ==
    /\ \A f \in tree :
           (IsSourceImage(f) /\ \A w \in GeneratedWrites(f) : w.ok) =>
               {w.path : w \in GeneratedWrites(f)} = ExpectedArtifacts(f)
    /\ (DirRunDone /\ ~log.genError /\ BuildFiles(fs) \cap before.files = {}) =>
           BuildFiles(fs) =
               UNION {ExpectedArtifacts(f) \cup {BuildImagePath(f, BuildRootDefault)} :
                        f \in log.processed}

\* A first directory run has processed a source, every step succeeded, and
\* the expected artifacts are on disk.
C22_Witness ==
    /\ DirRunDone
    /\ ~log.genError
    /\ BuildFiles(fs) \cap before.files = {}
    /\ \E f \in log.processed :
           /\ \A w \in GeneratedWrites(f) : w.ok
           /\ ExpectedArtifacts(f) \subseteq DOMAIN fs

(***************************************************************************)
(* C23.  The skip predicates of the three image scripts.                   *)
(***************************************************************************)
\* C23: for every file name with extension .png, .jpg, .jpeg or .webp,
\* shouldSkipFile of the timestamp script, shouldSkipFile of the legacy
\* script and the favicon filter of findImages give the same answer.
C23_SkipPredicatesAgree ==
    \A f \in tree :
        AcceptedExtension(f) =>
            /\ shouldSkipFile(f) = legacy_shouldSkipFile(f)
            /\ shouldSkipFile(f) = findImagesSkips(f.name)
            /\ legacy_shouldSkipFile(f) = findImagesSkips(f.name)

(***************************************************************************)
(* swift-build.mjs: the swift build.  The assets trees are maps from a     *)
(* path [dir, name] to a modification time; there are the assets of the    *)
(* build directory, their backup, and the assets of the source that        *)
(* deploy:copy puts into the fresh build directory.                        *)
(***************************************************************************)
AssetsDir == "assets"

AssetsImagesDir == "assets/images"

Str_images == <<"i", "m", "a", "g", "e", "s">>

Str_original_dot == Str_original \o <<".">>

Arg_skip_source_validation == "--skip-source-validation"

AssetPath(dir, name) == [dir |-> dir, name |-> name]

\* The files the backed-up assets are drawn from: variants, a sharpened
\* original and source images, in two directories.
AssetUniverse ==
    {AssetPath(AssetsDir, VariantName(<<"a">>, 320, Ext_webp)),
     AssetPath(AssetsDir, <<"a">> \o Str_original \o Ext_png),
     AssetPath(AssetsDir, N_a_png),
     AssetPath(AssetsDir, VariantName(<<"b">>, 320, Ext_webp)),
     AssetPath(AssetsImagesDir, VariantName(<<"c">>, 320, Ext_webp)),
     AssetPath(AssetsImagesDir, N_c_jpg)}

\* The time of the backup and the times a file of the build tree can have.
BackupTime == MaxTime - 1

AssetTimes == 1..MaxTime

\* The entries of directory dir as readdirSync returns them, in any order.
DirEntries(dir, files) ==
    {[isDir |-> FALSE, name |-> p.name] : p \in {q \in files : q.dir = dir}}
    \cup (IF dir = AssetsDir /\ \E q \in files : q.dir = AssetsImagesDir
          THEN {[isDir |-> TRUE, name |-> Str_images]}
          ELSE {})

Orderings(S) ==
    {q \in [1..Cardinality(S) -> S] :
        \A i, j \in 1..Cardinality(S) : i # j => q[i] # q[j]}

\* path.join(sourceDir, item) for a directory item
SubdirOf(dir, item) == AssetsImagesDir

\* The loop of restoreAssetsSelectively, lines 186-225, from item i of the
\* listing of sourceDir on.  r is [target, copied]: the build tree and the
\* files copied so far.  A copy has the time t.
RECURSIVE restoreItems(_, _, _, _, _, _)
restoreItems(sourceDir, i, listing, backup, r, t) ==
    IF sourceDir \notin DOMAIN listing \/ i > Len(listing[sourceDir]) THEN r
    ELSE LET item == listing[sourceDir][i]
             path == AssetPath(sourceDir, item.name)
             baseName == basename(item.name, extname(item.name))
             copy == [target |-> (path :> t) @@ r.target,
                      copied |-> r.copied \cup {path}]
         IN  IF item.isDir
             THEN restoreItems(sourceDir, i + 1, listing, backup,
                               restoreItems(SubdirOf(sourceDir, item), 1,
                                            listing, backup, r, t),
                               t)
             ELSE IF includes(item.name, Str_original_dot)
             THEN r
             ELSE IF \/ ~includes(baseName, <<"-">>)
                     \/ (~includes(baseName, <<"w">>)
                           /\ ~includes(baseName, Tail(Str_original)))
             THEN r
             ELSE IF path \in DOMAIN r.target
             THEN IF backup[path] > r.target[path]
                  THEN restoreItems(sourceDir, i + 1, listing, backup, copy, t)
                  ELSE restoreItems(sourceDir, i + 1, listing, backup, r, t)
             ELSE restoreItems(sourceDir, i + 1, listing, backup, copy, t)

\* restoreAssetsSelectively(sourceDir, targetDir), lines 181-226.
restoreAssetsSelectively(sourceDir, listing, backup, targetFiles, t) ==
    restoreItems(sourceDir, 1, listing, backup,
                 [target |-> targetFiles, copied |-> {}], t)

\* The image scripts of deploy-support are not running.
ImageScriptsIdle(stage) ==
    /\ rootExists = FALSE
    /\ phase = stage
    /\ target = DirTarget
    /\ todo = {}
    /\ processedCount = 0
    /\ skippedCount = 0
    /\ exitCode = -1
    /\ log = EmptyLog
    /\ pending = NoChanges
    /\ before = [fresh |-> FALSE, cleanDir |-> FALSE, deleted |-> {},
                 touched |-> {}, files |-> {}, unwritten |-> {}]
    /\ last = NothingRun
    /\ runs = 0
    /\ events = 0
    /\ args = <<>>
    /\ vcsOk = TRUE
    /\ vcsChanged = {}
    /\ gitCount = NoCount
    /\ gitLog = EmptyGitLog

\* The variables a swift build leaves alone.
notSwiftVars ==
    <<fs, rootExists, now, target, todo, processedCount, skippedCount, log,
      pending, before, last, runs, events, args, vcsOk, vcsChanged, gitCount,
      gitLog, legacyRun, buildRun, deployRun>>

\* A build directory that may hold processed assets, a source tree, and the
\* order in which each directory of the backup will be listed.
SwiftInit ==
    /\ ImageScriptsIdle("swift-start")
    /\ fs = <<>>
    /\ now = 1
    /\ legacyRun = NotRunning
    /\ buildRun = NotRunning
    /\ deployRun = NotRunning
    /\ \E files \in SUBSET AssetUniverse :
         /\ Cardinality(files) <= MaxBackup
         /\ \E top \in Orderings(DirEntries(AssetsDir, files)),
               sub \in Orderings(DirEntries(AssetsImagesDir, files)),
               copied \in SUBSET files,
               assetsExist \in BOOLEAN,
               skip \in BOOLEAN :
              \E times \in [copied -> AssetTimes] :
                 swiftRun =
                     [argv |-> IF skip THEN <<Arg_skip_source_validation>>
                               ELSE <<>>,
                      assetsExist |-> assetsExist /\ files # {},
                      assets |-> IF assetsExist
                                 THEN [p \in files |-> 1] ELSE <<>>,
                      listing |-> (AssetsDir :> top) @@ (AssetsImagesDir :> sub),
                      sourceAssets |-> times,
                      backup |-> <<>>,
                      backupDone |-> FALSE,
                      validated |-> FALSE,
                      failedAt |-> "",
                      deleted |-> FALSE,
                      beforeRestore |-> <<>>,
                      copied |-> {}]

\* backupAssets(), lines 140-160, and swiftBuild lines 243-247: cp -R, which
\* may fail; without an assets directory the build is refused.
backupAssets ==
    /\ phase = "swift-start"
    /\ \E cpOk \in BOOLEAN :
         IF swiftRun.assetsExist /\ cpOk
         THEN /\ swiftRun' =
                     [swiftRun EXCEPT
                        !.backup = [p \in DOMAIN swiftRun.assets |-> BackupTime],
                        !.backupDone = TRUE]
              /\ phase' = "swift-backed-up"
              /\ UNCHANGED exitCode
         ELSE /\ phase' = "swift-failed"
              /\ exitCode' = 1
              /\ swiftRun' = [swiftRun EXCEPT !.failedAt = "backupAssets"]
    /\ UNCHANGED notSwiftVars

\* Mutant: the result of validate:source is not looked at.
validateSource_IgnoresResult ==
    /\ phase = "swift-backed-up"
    /\ IF Arg_skip_source_validation \in SeqRange(swiftRun.argv)
       THEN /\ phase' = "swift-validated"
            /\ UNCHANGED <<swiftRun, exitCode>>
       ELSE \E result \in BOOLEAN :
              /\ swiftRun' = [swiftRun EXCEPT !.validated = result]
              /\ phase' = "swift-validated"
              /\ UNCHANGED exitCode
    /\ UNCHANGED notSwiftVars

\* swiftBuild, lines 249-256: validate:source unless it is skipped.
validateSource ==
    /\ phase = "swift-backed-up"
    /\ IF Arg_skip_source_validation \in SeqRange(swiftRun.argv)
       THEN /\ phase' = "swift-validated"
            /\ UNCHANGED <<swiftRun, exitCode>>
       ELSE \E result \in BOOLEAN :
              IF result
              THEN /\ swiftRun' = [swiftRun EXCEPT !.validated = TRUE]
                   /\ phase' = "swift-validated"
                   /\ UNCHANGED exitCode
              ELSE /\ phase' = "swift-failed"
                   /\ exitCode' = 1
                   /\ swiftRun' =
                          [swiftRun EXCEPT !.failedAt = "validate:source"]
    /\ UNCHANGED notSwiftVars

\* swiftBuild, lines 258-265: the build directory is removed and made anew,
\* then deploy:copy fills it from the source, or fails.
cleanAndCopy ==
    /\ phase = "swift-validated"
    /\ \E copyOk \in BOOLEAN :
         IF copyOk
         THEN /\ swiftRun' = [swiftRun EXCEPT !.deleted = TRUE,
                                              !.assets = swiftRun.sourceAssets]
              /\ phase' = "swift-copied"
              /\ UNCHANGED exitCode
         ELSE /\ swiftRun' = [swiftRun EXCEPT !.deleted = TRUE, !.assets = <<>>,
                                              !.failedAt = "deploy:copy"]
              /\ phase' = "swift-failed"
              /\ exitCode' = 1
    /\ UNCHANGED notSwiftVars

\* restoreAssets(), lines 163-178, and swiftBuild lines 268-271.
restoreAssets ==
    /\ phase = "swift-copied"
    /\ IF swiftRun.backupDone
       THEN \E r \in {restoreAssetsSelectively(AssetsDir, swiftRun.listing,
                                               swiftRun.backup, swiftRun.assets,
                                               BackupTime + 1)} :
              /\ swiftRun' = [swiftRun EXCEPT !.beforeRestore = swiftRun.assets,
                                              !.assets = r.target,
                                              !.copied = r.copied]
              /\ phase' = "swift-restored"
              /\ UNCHANGED exitCode
       ELSE /\ phase' = "swift-failed"
            /\ exitCode' = 1
            /\ swiftRun' = [swiftRun EXCEPT !.failedAt = "restoreAssets"]
    /\ UNCHANGED notSwiftVars

\* swiftBuild, lines 273-359: the remaining steps end the build with exit
\* code 0, or one of them fails and the build exits with code 1.
finishSwiftBuild ==
    /\ phase = "swift-restored"
    /\ \E ok \in BOOLEAN :
         /\ phase' = IF ok THEN "swift-done" ELSE "swift-failed"
         /\ exitCode' = IF ok THEN 0 ELSE 1
         /\ swiftRun' = IF ok THEN swiftRun
                        ELSE [swiftRun EXCEPT !.failedAt = "later step"]
    /\ UNCHANGED notSwiftVars

SwiftNext ==
    \/ backupAssets
    \/ validateSource
    \/ cleanAndCopy
    \/ restoreAssets
    \/ finishSwiftBuild

SwiftSpec == SwiftInit /\ [][SwiftNext]_vars

(***************************************************************************)
(* C24.  Selective restore in the swift build.                             *)
(***************************************************************************)
\* A generated responsive variant: the base name ends in -<digits>w and the
\* file is not a sharpened original.
IsResponsiveVariant(name) ==
    /\ EndsInWidthSuffix(basename(name, extname(name)))
    /\ ~includes(name, Str_original_dot)

SwiftRestored == phase \in {"swift-restored", "swift-done"}

\* C24: after the restore every file of the backup was copied to the build
\* tree if and only if it is a responsive variant and the file of the build
\* tree was missing or strictly older than the backup, whatever the order
\* of the listings.
C24_SelectiveRestore ==
    SwiftRestored =>
        \A p \in DOMAIN swiftRun.backup :
            p \in swiftRun.copied <=>
                /\ IsResponsiveVariant(p.name)
                /\ \/ p \notin DOMAIN swiftRun.beforeRestore
                   \/ swiftRun.beforeRestore[p] < swiftRun.backup[p]

(***************************************************************************)
(* C28.  Ordering of the swift build.                                      *)
(***************************************************************************)
SkipSourceValidation == Arg_skip_source_validation \in SeqRange(swiftRun.argv)

SwiftRunning == phase \notin {"swift-start"} /\ swiftRun # NotRunning

\* C28: the build directory is deleted only after the backup succeeded and,
\* unless --skip-source-validation is given, validation passed; without a
\* processed assets directory, and when the backup or the validation fails,
\* the build exits with code 1 and the build directory is not deleted.
C28_SwiftOrdering ==
    swiftRun # NotRunning =>
        /\ swiftRun.deleted =>
               /\ swiftRun.backupDone
               /\ SkipSourceValidation \/ swiftRun.validated
        /\ (SwiftRunning /\ ~swiftRun.assetsExist) =>
               /\ phase = "swift-failed"
               /\ exitCode = 1
               /\ ~swiftRun.deleted
        /\ swiftRun.failedAt \in {"backupAssets", "validate:source"} =>
               /\ phase = "swift-failed"
               /\ exitCode = 1
               /\ ~swiftRun.deleted
        /\ phase = "swift-failed" => exitCode = 1

\* The build directory was deleted after a backup and a validation that
\* passed.
C28_Witness ==
    /\ swiftRun # NotRunning
    /\ swiftRun.deleted
    /\ swiftRun.backupDone
    /\ swiftRun.validated
    /\ ~SkipSourceValidation

(***************************************************************************)
(* scripts/01-process-images.mjs: the legacy script.  It writes next to    *)
(* its input and sharpens the input in place.  processedCache lives as     *)
(* long as the process, that is one run.                                   *)
(***************************************************************************)
Ext_temp == <<".", "t", "e", "m", "p">>

\* getImageKey(inputPath, width, format), lines 60-62: the text
\* `${inputPath}-${width}-${format}`, the directory kept apart from the rest.
legacy_getImageKey(inputPath, width, format) ==
    <<"", inputPath.root, inputPath.dir,
      inputPath.name \o <<"-">> \o NumberToString(width) \o <<"-">> \o format>>

\* `original-${inputPath}-${format}`, line 123
legacy_originalKey(inputPath, format) ==
    <<"original-", inputPath.root, inputPath.dir,
      inputPath.name \o <<"-">> \o format>>

\* /-\d+w/.test(baseName), line 187: not anchored at the end.
legacy_hasWidthSuffix(baseName) ==
    \E k \in 1..Len(baseName), m \in 1..Len(baseName) :
        /\ k + 1 < m
        /\ baseName[k] = "-"
        /\ baseName[m] = "w"
        /\ \A j \in (k + 1)..(m - 1) : baseName[j] \in Digits

\* Mutant: the key of a request that failed stays in the cache.
legacy_processImage_KeepsKey(cache, d, inputPath, width, format, ioFault, t) ==
    LET cacheKey == legacy_getImageKey(inputPath, width, format)
        outputPath ==
            [root |-> inputPath.root, dir |-> inputPath.dir,
             name |-> VariantName(basename(inputPath.name, extname(inputPath.name)),
                                  width, <<".">> \o format)]
    IN  IF cacheKey \in cache
        THEN [cache |-> cache, d |-> d, key |-> cacheKey, outcome |-> "hit",
              path |-> NoFile]
        ELSE IF format \in SharpFormatMethods /\ ~ioFault
        THEN [cache |-> cache \cup {cacheKey},
              d |-> (outputPath :>
                        [mtime |-> t,
                         width |-> ResizedWidth(d[inputPath].width, width, FALSE)])
                    @@ d,
              key |-> cacheKey, outcome |-> "written", path |-> outputPath]
        ELSE [cache |-> cache \cup {cacheKey}, d |-> d, key |-> cacheKey,
              outcome |-> "failed", path |-> NoFile]

\* processImage(inputPath, { width, format }), lines 64-110, on the cache
\* and the files d.  The result names what the call did: "hit" (returned at
\* line 77), "written", or "failed" (the catch of lines 105-109).
legacy_processImage(cache, d, inputPath, width, format, ioFault, t) ==
    LET cacheKey == legacy_getImageKey(inputPath, width, format)
        outputPath ==
            [root |-> inputPath.root, dir |-> inputPath.dir,
             name |-> VariantName(basename(inputPath.name, extname(inputPath.name)),
                                  width, <<".">> \o format)]
    IN  IF cacheKey \in cache
        THEN [cache |-> cache, d |-> d, key |-> cacheKey, outcome |-> "hit",
              path |-> NoFile]
        ELSE IF format \in SharpFormatMethods /\ ~ioFault
        THEN [cache |-> cache \cup {cacheKey},
              d |-> (outputPath :>
                        [mtime |-> t,
                         width |-> ResizedWidth(d[inputPath].width, width, FALSE)])
                    @@ d,
              key |-> cacheKey, outcome |-> "written", path |-> outputPath]
        ELSE [cache |-> cache \ {cacheKey}, d |-> d, key |-> cacheKey,
              outcome |-> "failed", path |-> NoFile]

\* What can go wrong in processOriginalImage: nothing; sharp throws before
\* or while it writes the temp file (which then may exist in part); the
\* rename throws; and in the last two cases the unlink may throw too.
OriginalFaults ==
    {[kind |-> "none", tempWritten |-> FALSE, unlinkFails |-> FALSE]}
    \cup {[kind |-> "sharp", tempWritten |-> w, unlinkFails |-> u] :
            w \in BOOLEAN, u \in BOOLEAN}
    \cup {[kind |-> "rename", tempWritten |-> TRUE, unlinkFails |-> u] :
            u \in BOOLEAN}

NoOriginalFault == [kind |-> "none", tempWritten |-> FALSE, unlinkFails |-> FALSE]

TempPath(inputPath) ==
    [root |-> inputPath.root, dir |-> inputPath.dir,
     name |-> inputPath.name \o Ext_temp]

\* Mutant: the catch does not remove the temp file.
legacy_processOriginalImage_NoCleanup(cache, d, inputPath, fault, t) ==
    LET format == slice1(extname(inputPath.name))
        cacheKey == legacy_originalKey(inputPath, format)
        tempPath == TempPath(inputPath)
        threwEarly == format \notin SharpFormatMethods
        written == ~threwEarly /\ fault.tempWritten
        afterSharp ==
            IF written
            THEN (tempPath :> [mtime |-> t, width |-> d[inputPath].width]) @@ d
            ELSE d
        tempExists == tempPath \in DOMAIN afterSharp
    IN  IF cacheKey \in cache
        THEN [cache |-> cache, d |-> d, outcome |-> "hit",
              unlinkFailed |-> FALSE]
        ELSE IF ~threwEarly /\ fault.kind = "none"
        THEN [cache |-> cache \cup {cacheKey},
              d |-> [q \in DOMAIN d \ {tempPath} |->
                        IF q = inputPath
                        THEN [mtime |-> t, width |-> d[q].width]
                        ELSE d[q]],
              outcome |-> "replaced", unlinkFailed |-> FALSE]
        ELSE [cache |-> cache \ {cacheKey},
              d |-> afterSharp,
              outcome |-> "failed",
              unlinkFailed |-> tempExists /\ fault.unlinkFails]

\* processOriginalImage(inputPath), lines 116-167.  The sharpened copy goes
\* to the temp path and is renamed over the source; the catch removes the
\* key and the temp file, and a failure of that removal is only logged
\* (lines 157-163).
legacy_processOriginalImage(cache, d, inputPath, fault, t) ==
    LET format == slice1(extname(inputPath.name))
        cacheKey == legacy_originalKey(inputPath, format)
        tempPath == TempPath(inputPath)
        threwEarly == format \notin SharpFormatMethods
        written == ~threwEarly /\ fault.tempWritten
        afterSharp ==
            IF written
            THEN (tempPath :> [mtime |-> t, width |-> d[inputPath].width]) @@ d
            ELSE d
        tempExists == tempPath \in DOMAIN afterSharp
    IN  IF cacheKey \in cache
        THEN [cache |-> cache, d |-> d, outcome |-> "hit",
              unlinkFailed |-> FALSE]
        ELSE IF ~threwEarly /\ fault.kind = "none"
        THEN [cache |-> cache \cup {cacheKey},
              d |-> [q \in DOMAIN d \ {tempPath} |->
                        IF q = inputPath
                        THEN [mtime |-> t, width |-> d[q].width]
                        ELSE d[q]],
              outcome |-> "replaced", unlinkFailed |-> FALSE]
        ELSE [cache |-> cache \ {cacheKey},
              d |-> IF tempExists /\ ~fault.unlinkFails
                    THEN [q \in DOMAIN afterSharp \ {tempPath} |-> afterSharp[q]]
                    ELSE afterSharp,
              outcome |-> "failed",
              unlinkFailed |-> tempExists /\ fault.unlinkFails]

\* The requests of lines 195-198 and 218-221 for one input, in order.
RECURSIVE legacy_requests(_, _)
legacy_requests(inputPath, i) ==
    IF i > Len(SIZES) THEN <<>>
    ELSE <<[width |-> SIZES[i], format |-> Fmt_webp],
           [width |-> SIZES[i], format |-> slice1(extname(inputPath.name))]>>
         \o legacy_requests(inputPath, i + 1)

\* The loop over the requests from the i-th on; failAt is the request whose
\* write fails.  st is [cache, d, history].
RECURSIVE legacy_variants(_, _, _, _, _, _)
legacy_variants(st, inputPath, reqs, i, failAt, t) ==
    IF i > Len(reqs) THEN st
    ELSE LET r == legacy_processImage(st.cache, st.d, inputPath, reqs[i].width,
                                      reqs[i].format, failAt = i, t)
         IN  legacy_variants(
                 [cache |-> r.cache, d |-> r.d,
                  history |-> Append(st.history,
                                     [key |-> r.key, outcome |-> r.outcome,
                                      path |-> r.path])],
                 inputPath, reqs, i + 1, failAt, t)


\* The variables the legacy script leaves alone.
notLegacyVars ==
    <<rootExists, target, processedCount, skippedCount, log, pending, before,
      last, args, vcsOk, vcsChanged, gitCount, gitLog, swiftRun, buildRun,
      deployRun>>

\* The files a legacy run may find: sources of each accepted extension, a
\* source in a subdirectory, a name with a width suffix and a skipped one.
LegacyUniverse ==
    {SourceFile(ImagesDir, N_a_png), SourceFile(SubDir, N_a_png),
     SourceFile(ImagesDir, N_b_webp), SourceFile(ImagesDir, N_c_jpg),
     SourceFile(ImagesDir, N_logo_svg), SourceFile(ImagesDir, N_d_2w_png)}

\* The files single-file mode may be pointed at: any of these, or an output
\* of an earlier run.
LegacyTargets ==
    LegacyUniverse
    \cup {SourceFile(ImagesDir, VariantName(<<"a">>, SIZES[1], Ext_webp))}

\* The request of one file at which an I/O fault is tried; 0 is none.
FailPoints == 0..(2 * Len(SIZES))

\* A directory of up to MaxTree files; no run yet.
LegacyInit ==
    /\ ImageScriptsIdle("legacy-idle")
    /\ now = 1
    /\ \E files \in SUBSET LegacyUniverse :
         /\ Cardinality(files) <= MaxTree
         /\ \E w \in {x \in SourceWidths : \A y \in SourceWidths : x <= y} :
              fs = [f \in files |-> [mtime |-> 1, width |-> w]]
    /\ legacyRun = [mode |-> "none", cache |-> {}, history |-> <<>>,
                    originals |-> <<>>, sources |-> {}, generated |-> {},
                    onlyDir |-> TRUE, faulted |-> FALSE, namesAfter |-> <<>>]
    /\ swiftRun = NotRunning
    /\ buildRun = NotRunning
    /\ deployRun = NotRunning

\* Main execution, lines 207-227, up to the first file: a new process with
\* an empty cache.  mode is "dir", "file" (file is the target) or "none"
\* (no target path: exit code 1).
legacy_main(mode, file) ==
    /\ phase \in {"legacy-idle", "legacy-done"}
    /\ runs < MaxRuns
    /\ now < MaxTime
    /\ runs' = runs + 1
    /\ now' = now + 1
    /\ legacyRun' = [legacyRun EXCEPT !.mode = mode, !.cache = {},
                                      !.history = <<>>, !.originals = <<>>,
                                      !.sources = {},
                                      !.onlyDir = @ /\ mode = "dir"]
    /\ IF mode = "none"
       THEN /\ phase' = "legacy-done"
            /\ exitCode' = 1
            /\ todo' = {}
       ELSE /\ phase' = "legacy-run"
            /\ exitCode' = -1
            /\ todo' = IF mode = "dir" THEN DOMAIN fs ELSE {file}
    /\ UNCHANGED <<fs, events>>
    /\ UNCHANGED notLegacyVars

\* Lines 191-198 and 214-221: the original is sharpened in place, then the
\* ten requests.  At most one of the calls meets an I/O fault.
legacy_processFile(inputPath, fault, failAt) ==
    LET o == legacy_processOriginalImage(legacyRun.cache, fs, inputPath, fault,
                                         now)
        st == legacy_variants([cache |-> o.cache, d |-> o.d,
                               history |-> legacyRun.history],
                              inputPath, legacy_requests(inputPath, 1), 1,
                              failAt, now)
        io == fault.kind # "none" \/ failAt # 0
    IN  /\ ~(fault.kind # "none" /\ failAt # 0)
        /\ io => events < MaxEvents
        /\ events' = IF io THEN events + 1 ELSE events
        /\ fs' = st.d
        /\ legacyRun' =
               [legacyRun EXCEPT
                  !.cache = st.cache,
                  !.history = st.history,
                  !.originals =
                      (inputPath :>
                          [outcome |-> o.outcome,
                           fault |-> fault.kind,
                           sourceUnchanged |-> o.d[inputPath] = fs[inputPath],
                           tempLeft |-> TempPath(inputPath) \in DOMAIN o.d,
                           keyRemoved |->
                               legacy_originalKey(
                                   inputPath, slice1(extname(inputPath.name)))
                                   \notin o.cache,
                           unlinkFailed |-> o.unlinkFailed]) @@ @,
                  !.sources = @ \cup {inputPath},
                  !.generated = @ \cup (DOMAIN st.d \ DOMAIN o.d),
                  !.faulted = @ \/ io]

\* Mutant: the test of the width suffix (lines 186-189) is left out.
legacy_accepts_NoSuffixTest(file) ==
    /\ imagePattern(file.name)
    /\ ~legacy_shouldSkipFile(file)

\* The tests of lines 181-189 an entry must pass to be processed.
legacy_accepts(file) ==
    /\ imagePattern(file.name)
    /\ ~legacy_shouldSkipFile(file)
    /\ ~legacy_hasWidthSuffix(basename(file.name, extname(file.name)))

\* The loop of processDirectory, lines 175-199, up to and including the next
\* entry it processes; the entries it passes over with `continue` leave the
\* listing in the same step.
legacy_processDirectory(file) ==
    /\ phase = "legacy-run"
    /\ legacyRun.mode = "dir"
    /\ file \in todo
    /\ legacy_accepts(file)
    /\ todo' = {g \in todo \ {file} : legacy_accepts(g)}
    /\ \E fault \in OriginalFaults, failAt \in FailPoints :
           legacy_processFile(file, fault, failAt)
    /\ UNCHANGED <<now, phase, exitCode, runs>>
    /\ UNCHANGED notLegacyVars

\* Main execution, lines 212-222: the target is a file.
legacy_mainSingleFile ==
    /\ phase = "legacy-run"
    /\ legacyRun.mode = "file"
    /\ \E file \in todo :
         /\ todo' = {}
         /\ IF ~legacy_shouldSkipFile(file)
            THEN \E fault \in OriginalFaults, failAt \in FailPoints :
                     legacy_processFile(file, fault, failAt)
            ELSE UNCHANGED <<fs, events, legacyRun>>
    /\ UNCHANGED <<now, phase, exitCode, runs>>
    /\ UNCHANGED notLegacyVars

\* No entry is left that the loop would process: the process ends with exit
\* code 0.
legacy_end ==
    /\ phase = "legacy-run"
    /\ \A g \in todo : legacyRun.mode = "dir" /\ ~legacy_accepts(g)
    /\ phase' = "legacy-done"
    /\ exitCode' = 0
    /\ legacyRun' = [legacyRun EXCEPT !.namesAfter = Append(@, DOMAIN fs)]
    /\ todo' = {}
    /\ UNCHANGED <<fs, now, runs, events>>
    /\ UNCHANGED notLegacyVars

LegacyNext ==
    \/ \E file \in DOMAIN fs \cap LegacyTargets : legacy_main("file", file)
    \/ legacy_main("dir", NoFile)
    \/ legacy_main("none", NoFile)
    \/ \E file \in todo : legacy_processDirectory(file)
    \/ legacy_mainSingleFile
    \/ legacy_end

LegacySpec == LegacyInit /\ [][LegacyNext]_vars


\* The requests of the current run that follow request i and carry its key.
LaterSameKey(i) ==
    {j \in (i + 1)..Len(legacyRun.history) :
        legacyRun.history[j].key = legacyRun.history[i].key}

\* The next request for the key of request i, if there is one.
NextSameKey(i) ==
    {j \in LaterSameKey(i) : \A k \in LaterSameKey(i) : j <= k}

\* C25: within one run of the legacy script, once a task key (input path,
\* width, format) was written, every later request for it returns from the
\* cache without a write, so a key is written at most once; and when the
\* processing of a key failed the key has left the cache, so the next
\* request for it in that run is attempted again.
C25_Deduplication ==
    \A i \in 1..Len(legacyRun.history) :
        LET h == legacyRun.history
        IN  /\ h[i].outcome = "written" =>
                /\ h[i].key \in legacyRun.cache
                /\ \A j \in LaterSameKey(i) :
                       h[j].outcome = "hit" /\ h[j].path = NoFile
            /\ h[i].outcome = "failed" =>
                /\ \A j \in NextSameKey(i) : h[j].outcome # "hit"
                /\ LaterSameKey(i) = {} => h[i].key \notin legacyRun.cache

\* A run has ended in which one key failed and was written on the next
\* request, and another key was written and then found in the cache.
C25_Witness ==
    /\ phase = "legacy-done"
    /\ \E i \in 1..Len(legacyRun.history) :
           /\ legacyRun.history[i].outcome = "failed"
           /\ \E j \in NextSameKey(i) : legacyRun.history[j].outcome = "written"
    /\ \E i \in 1..Len(legacyRun.history) :
           /\ legacyRun.history[i].outcome = "written"
           /\ LaterSameKey(i) # {}


\* The sources whose original was handled in the current run and failed.
FailedOriginals ==
    {f \in DOMAIN legacyRun.originals :
        legacyRun.originals[f].outcome = "failed"}

\* C26 as stated: whenever the sharpening or the rename of
\* processOriginalImage fails, the source file is unchanged, no
\* '<source>.temp' file remains and the cache key is removed.
C26_AllOrNothing ==
    \A f \in FailedOriginals :
        /\ legacyRun.originals[f].sourceUnchanged
        /\ ~legacyRun.originals[f].tempLeft
        /\ legacyRun.originals[f].keyRemoved

\* C26 amended: the source is replaced only by a call in which the copy was
\* written and renamed without a failure; after a failed call the source is
\* unchanged and the cache key removed, and a '<source>.temp' file remains
\* only when removing it failed as well.
C26_AllOrNothingUnlessCleanupFails ==
    \A f \in DOMAIN legacyRun.originals :
        LET o == legacyRun.originals[f]
        IN  /\ o.outcome = "replaced" =>
                o.fault = "none" /\ ~o.tempLeft /\ ~o.sourceUnchanged
            /\ o.outcome = "failed" =>
                /\ o.sourceUnchanged
                /\ o.keyRemoved
                /\ o.tempLeft => o.unlinkFailed

\* A rename failed after the temp file was written, and the temp file was
\* removed.
C26_Witness ==
    \E f \in FailedOriginals :
        /\ legacyRun.originals[f].fault = "rename"
        /\ ~legacyRun.originals[f].tempLeft
        /\ \E g \in DOMAIN legacyRun.originals :
               legacyRun.originals[g].outcome = "replaced"


\* C27: while the legacy script has only been run in directory mode, no
\* file it generated is processed as a source image, and when no write
\* failed the set of file names after every later run equals the set after
\* the first run.
C27_NoOwnOutputAsSource ==
    legacyRun.onlyDir =>
        /\ legacyRun.sources \cap legacyRun.generated = {}
        /\ ~legacyRun.faulted =>
               \A k \in 1..Len(legacyRun.namesAfter) :
                   legacyRun.namesAfter[k] = legacyRun.namesAfter[1]

\* Two directory-mode runs without a failure have ended, and the first one
\* generated files next to the sources the second one processed.
C27_Witness ==
    /\ phase = "legacy-done"
    /\ legacyRun.onlyDir
    /\ ~legacyRun.faulted
    /\ Len(legacyRun.namesAfter) = MaxRuns
    /\ legacyRun.sources # {}
    /\ \E g \in legacyRun.generated, f \in legacyRun.sources :
           g.dir = f.dir /\ g \in legacyRun.namesAfter[1]


\* ---------------------------------------------------------------------
\* build.mjs: the full build as a sequence of child processes.

\* npm script names of the calls of runBuildStep in build().
S_validate_source ==
    <<"v", "a", "l", "i", "d", "a", "t", "e", ":", "s", "o", "u", "r", "c", "e">>
S_deploy_copy ==
    <<"d", "e", "p", "l", "o", "y", ":", "c", "o", "p", "y">>
S_process_images ==
    <<"p", "r", "o", "c", "e", "s", "s", ":", "i", "m", "a", "g", "e", "s">>
S_process_videos ==
    <<"p", "r", "o", "c", "e", "s", "s", ":", "v", "i", "d", "e", "o", "s">>
S_process_featured ==
    <<"p", "r", "o", "c", "e", "s", "s", ":", "f", "e", "a", "t", "u", "r", "e", "d">>
S_process_responsive ==
    <<"p", "r", "o", "c", "e", "s", "s", ":", "r", "e", "s", "p", "o", "n", "s", "i", "v", "e">>
S_format_files ==
    <<"f", "o", "r", "m", "a", "t", ":", "f", "i", "l", "e", "s">>
S_validate_html ==
    <<"v", "a", "l", "i", "d", "a", "t", "e", ":", "h", "t", "m", "l">>
S_build_portfolio ==
    <<"b", "u", "i", "l", "d", ":", "p", "o", "r", "t", "f", "o", "l", "i", "o">>
S_inject_nav ==
    <<"i", "n", "j", "e", "c", "t", ":", "n", "a", "v">>
S_inject_footer ==
    <<"i", "n", "j", "e", "c", "t", ":", "f", "o", "o", "t", "e", "r">>
S_audit_site ==
    <<"a", "u", "d", "i", "t", ":", "s", "i", "t", "e">>
Str_format_colon == <<"f", "o", "r", "m", "a", "t", ":">>
Str_update_colon == <<"u", "p", "d", "a", "t", "e", ":">>
Arg_static_only == "--static-only"
Arg_skip_images == "--skip-images"
Arg_skip_validation == "--skip-validation"

BuildFlags ==
    {Arg_skip_source_validation, Arg_static_only, Arg_skip_images,
     Arg_skip_validation}

\* How a child process can end: exit code 0, another exit code, or no
\* process at all (spawn throws, or the 'error' event).
ChildOutcomes == {"zero", "nonzero", "error"}

Npm(script) == [script |-> script, via |-> "runBuildStep"]

\* The steps build() goes through, lines 146-283, for the flags in argv;
\* publicHtml and portfolioDir say whether build/temp/public_html and its
\* portfolio directory exist (static-only mode, lines 174-186).
BuildPlan(argv, publicHtml, portfolioDir) ==
    IF Arg_static_only \in argv
    THEN (IF publicHtml /\ portfolioDir THEN <<>> ELSE <<Npm(S_deploy_copy)>>)
         \o <<Npm(S_build_portfolio)>>
    ELSE (IF Arg_skip_source_validation \in argv THEN <<>>
          ELSE <<Npm(S_validate_source)>>)
         \o <<Npm(S_deploy_copy)>>
         \o (IF Arg_skip_images \in argv THEN <<>>
             ELSE <<Npm(S_process_images), Npm(S_process_videos),
                    Npm(S_process_featured), Npm(S_process_responsive)>>)
         \o <<Npm(S_format_files)>>
         \o (IF Arg_skip_validation \in argv THEN <<>>
             ELSE <<Npm(S_validate_html)>>)
         \o <<Npm(S_build_portfolio),
              [script |-> <<>>, via |-> "inject-head"],
              Npm(S_inject_nav), Npm(S_inject_footer), Npm(S_audit_site),
              [script |-> <<>>, via |-> "compare-audits"],
              [script |-> <<>>, via |-> "formatHtmlFiles"]>>

\* Mutant: every non-zero exit is passed over.
runBuildStep_ResolvesAlways(script, outcome) ==
    "resolve"

\* runBuildStep(script, description), lines 301-371: what the promise does
\* when the child ends with the outcome.
runBuildStep(script, outcome) ==
    IF outcome = "zero" THEN "resolve"
    ELSE IF script = S_validate_source THEN "reject"
    ELSE IF startsWith(script, Str_format_colon)
            \/ startsWith(script, Str_update_colon)
    THEN "resolve"
    ELSE "reject"

\* What build() does when a step ends: the promises of lines 236-249
\* (inject-head), 263-276 (compare-audits) and the try of formatHtmlFiles.
settleStep(step, outcome) ==
    IF step.via = "runBuildStep" THEN runBuildStep(step.script, outcome)
    ELSE IF step.via = "inject-head" /\ outcome = "error" THEN "reject"
    ELSE "resolve"

\* The variables a build leaves alone.
notBuildVars ==
    <<fs, rootExists, now, target, todo, processedCount, skippedCount, log,
      pending, before, last, runs, events, args, vcsOk, vcsChanged, gitCount,
      gitLog, legacyRun, swiftRun, deployRun>>

\* build() has been called: no step started.
BuildInit ==
    /\ ImageScriptsIdle("build-run")
    /\ fs = <<>>
    /\ now = 1
    /\ legacyRun = NotRunning
    /\ swiftRun = NotRunning
    /\ deployRun = NotRunning
    /\ \E argv \in SUBSET BuildFlags, publicHtml \in BOOLEAN,
          portfolioDir \in BOOLEAN :
         /\ portfolioDir => publicHtml
         /\ buildRun = [argv |-> argv,
                        plan |-> BuildPlan(argv, publicHtml, portfolioDir),
                        started |-> 0, open |-> FALSE, closed |-> <<>>]

\* The next step of build() starts its child process.
build_spawn ==
    /\ phase = "build-run"
    /\ ~buildRun.open
    /\ buildRun.started < Len(buildRun.plan)
    /\ buildRun' = [buildRun EXCEPT !.started = @ + 1, !.open = TRUE]
    /\ UNCHANGED <<phase, exitCode>>
    /\ UNCHANGED notBuildVars

\* The child of the running step ends; a rejection reaches the catch of
\* lines 288-292 and process.exit(1).
build_close(outcome) ==
    /\ phase = "build-run"
    /\ buildRun.open
    /\ buildRun' = [buildRun EXCEPT !.open = FALSE,
                                    !.closed = Append(@, outcome)]
    /\ IF settleStep(buildRun.plan[buildRun.started], outcome) = "reject"
       THEN phase' = "build-failed" /\ exitCode' = 1
       ELSE UNCHANGED <<phase, exitCode>>
    /\ UNCHANGED notBuildVars

\* build() returns after its last step: line 285, or line 194 in static-only
\* mode.
build_completed ==
    /\ phase = "build-run"
    /\ ~buildRun.open
    /\ buildRun.started = Len(buildRun.plan)
    /\ phase' = "build-done"
    /\ exitCode' = 0
    /\ UNCHANGED buildRun
    /\ UNCHANGED notBuildVars

BuildNext ==
    \/ build_spawn
    \/ \E outcome \in ChildOutcomes : build_close(outcome)
    \/ build_completed

BuildSpec == BuildInit /\ [][BuildNext]_vars

\* The scripts whose non-zero exit the claim excepts.
FormatOrUpdate(script) ==
    startsWith(script, Str_format_colon) \/ startsWith(script, Str_update_colon)

\* The steps of the plan that have ended.
ClosedSteps == 1..Len(buildRun.closed)

\* C29: the steps of the build run in the order of build(), one at a time
\* (a step starts only when all steps before it have closed); a step run
\* through runBuildStep that does not exit with code 0 is the last step
\* started and the build exits with code 1, unless its script name starts
\* with 'format:' or 'update:', in which case the build has not failed at
\* that step.
C29_StepFailurePolicy ==
    /\ buildRun.started <= Len(buildRun.plan)
    /\ Len(buildRun.closed) =
           IF buildRun.open THEN buildRun.started - 1 ELSE buildRun.started
    /\ \A i \in ClosedSteps :
           LET step == buildRun.plan[i]
           IN  (step.via = "runBuildStep" /\ buildRun.closed[i] # "zero") =>
                   IF FormatOrUpdate(step.script)
                   THEN buildRun.started = i => phase # "build-failed"
                   ELSE /\ buildRun.started = i
                        /\ phase = "build-failed"
                        /\ exitCode = 1
    /\ phase = "build-done" =>
           /\ buildRun.started = Len(buildRun.plan)
           /\ exitCode = 0

\* format:files exited non-zero, the build went on, and a later step run
\* through runBuildStep exited non-zero and ended the build.
C29_Witness ==
    /\ phase = "build-failed"
    /\ \E i \in ClosedSteps :
           /\ buildRun.plan[i].script = S_format_files
           /\ buildRun.closed[i] = "nonzero"
           /\ i < buildRun.started
    /\ buildRun.plan[buildRun.started].via = "runBuildStep"
    /\ buildRun.closed[buildRun.started] = "nonzero"


\* ---------------------------------------------------------------------
\* deploy/simple-deploy.sh: file transfer with retries.

MAX_RETRIES == 3

\* The commands run through retry_command, in the order of the script.
RetryStages == {"transfer", "chmod", "cache"}

\* Mutant: the loop allows one attempt more.
retry_command_OneMore(attempt, max_attempts, ok) ==
    IF attempt <= max_attempts + 1
    THEN IF ok THEN [attempt |-> attempt, ran |-> TRUE, status |-> "ok"]
         ELSE [attempt |-> attempt + 1, ran |-> TRUE, status |-> "again"]
    ELSE [attempt |-> attempt, ran |-> FALSE, status |-> "fail"]

\* retry_command, lines 80-96, from the test of the while loop on: one pass
\* whose command succeeds (ok) or fails, or the return 1 after the loop.
retry_command(attempt, max_attempts, ok) ==
    IF attempt <= max_attempts
    THEN IF ok THEN [attempt |-> attempt, ran |-> TRUE, status |-> "ok"]
         ELSE [attempt |-> attempt + 1, ran |-> TRUE, status |-> "again"]
    ELSE [attempt |-> attempt, ran |-> FALSE, status |-> "fail"]

\* The variables a deployment leaves alone.
notDeployVars ==
    <<fs, rootExists, now, target, todo, processedCount, skippedCount, log,
      pending, before, last, runs, events, args, vcsOk, vcsChanged, gitCount,
      gitLog, legacyRun, swiftRun, buildRun>>

\* The script has started; nothing was checked yet.
DeployInit ==
    /\ ImageScriptsIdle("deploy-run")
    /\ fs = <<>>
    /\ now = 1
    /\ legacyRun = NotRunning
    /\ swiftRun = NotRunning
    /\ buildRun = NotRunning
    /\ \E buildDir \in BOOLEAN, dryRun \in BOOLEAN, openBrowser \in BOOLEAN :
         deployRun = [buildDir |-> buildDir, dryRun |-> dryRun,
                      openBrowser |-> openBrowser, stage |-> "check",
                      attempt |-> 1,
                      tries |-> [c \in RetryStages |-> 0],
                      okAt |-> [c \in RetryStages |-> 0],
                      returned |-> [c \in RetryStages |-> "none"],
                      filterFile |-> FALSE, opened |-> FALSE]

\* Lines 17-21: the build directory must exist.
deploy_checkBuildDir ==
    /\ phase = "deploy-run"
    /\ deployRun.stage = "check"
    /\ IF deployRun.buildDir
       THEN /\ deployRun' = [deployRun EXCEPT !.stage = "ssh"]
            /\ UNCHANGED <<phase, exitCode>>
       ELSE /\ phase' = "deploy-failed"
            /\ exitCode' = 1
            /\ UNCHANGED deployRun
    /\ UNCHANGED notDeployVars

\* Lines 48-71: the SSH connection test, then the filter file.
deploy_testConnection(ok) ==
    /\ phase = "deploy-run"
    /\ deployRun.stage = "ssh"
    /\ IF ok
       THEN /\ deployRun' = [deployRun EXCEPT !.stage = "transfer",
                                              !.attempt = 1,
                                              !.filterFile = TRUE]
            /\ UNCHANGED <<phase, exitCode>>
       ELSE /\ phase' = "deploy-failed"
            /\ exitCode' = 1
            /\ UNCHANGED deployRun
    /\ UNCHANGED notDeployVars

\* What the script does when retry_command has returned for a stage:
\* lines 117-123 after the transfer, lines 126-136 and 141-168 after it.
afterRetry(run, status) ==
    IF run.stage = "transfer"
    THEN IF status = "fail"
         THEN [run EXCEPT !.filterFile = FALSE, !.stage = "exit-1"]
         ELSE IF run.dryRun
         THEN [run EXCEPT !.filterFile = FALSE, !.stage = "exit-0"]
         ELSE [run EXCEPT !.filterFile = FALSE, !.stage = "chmod",
                          !.attempt = 1]
    ELSE IF run.stage = "chmod"
    THEN [run EXCEPT !.stage = "cache", !.attempt = 1]
    ELSE [run EXCEPT !.stage = "exit-0", !.opened = run.openBrowser]

\* The next pass of retry_command for the command of the current stage.
deploy_attempt(ok) ==
    /\ phase = "deploy-run"
    /\ deployRun.stage \in RetryStages
    /\ LET c == deployRun.stage
           r == retry_command(deployRun.attempt, MAX_RETRIES, ok)
           ran == [deployRun EXCEPT
                     !.tries[c] = IF r.ran THEN @ + 1 ELSE @,
                     !.okAt[c] = IF r.status = "ok"
                                 THEN deployRun.tries[c] + 1 ELSE @,
                     !.attempt = r.attempt,
                     !.returned[c] = IF r.status = "again" THEN @
                                     ELSE r.status]
           next == IF r.status = "again" THEN ran
                   ELSE afterRetry(ran, r.status)
       IN  /\ deployRun' =
                 [next EXCEPT !.stage = IF @ \in {"exit-0", "exit-1"}
                                        THEN "end" ELSE @]
           /\ IF next.stage = "exit-1"
              THEN phase' = "deploy-failed" /\ exitCode' = 1
              ELSE IF next.stage = "exit-0"
              THEN phase' = "deploy-done" /\ exitCode' = 0
              ELSE UNCHANGED <<phase, exitCode>>
    /\ UNCHANGED notDeployVars

DeployNext ==
    \/ deploy_checkBuildDir
    \/ \E ok \in BOOLEAN : deploy_testConnection(ok)
    \/ \E ok \in BOOLEAN : deploy_attempt(ok)

DeploySpec == DeployInit /\ [][DeployNext]_vars

\* C30: retry_command runs its command at most max_attempts times, runs
\* nothing after the first successful attempt, and returns failure only
\* after exactly max_attempts failed attempts; when the file transfer
\* fails this way the script exits with code 1 and the permission and
\* cache-clearing commands are never run.
C30_DeployRetry ==
    /\ \A c \in RetryStages :
           /\ deployRun.tries[c] <= MAX_RETRIES
           /\ deployRun.returned[c] = "ok" <=> deployRun.okAt[c] > 0
           /\ deployRun.okAt[c] > 0 => deployRun.tries[c] = deployRun.okAt[c]
           /\ deployRun.returned[c] = "fail" =>
                  deployRun.tries[c] = MAX_RETRIES /\ deployRun.okAt[c] = 0
    /\ deployRun.returned["transfer"] = "fail" =>
           /\ phase = "deploy-failed"
           /\ exitCode = 1
           /\ deployRun.tries["chmod"] = 0
           /\ deployRun.tries["cache"] = 0

\* The transfer failed max_attempts times and the script has exited.
C30_Witness ==
    /\ phase = "deploy-failed"
    /\ deployRun.returned["transfer"] = "fail"
    /\ deployRun.tries["transfer"] = MAX_RETRIES

====
